---- MODULE Spec2Model ----
(***************************************************************************)
(* Anthropic <-> Cerebras shim: the streaming translator                   *)
(* (translateStreamChunk over one StreamState) and the SSE loop of         *)
(* handleStreamingResponse that drives it.                                 *)
(*                                                                         *)
(* Strings that the code concatenates or tests for emptiness (text deltas, *)
(* argument fragments, buffers) are sequences of one-character strings;    *)
(* ids, names and enum-like values are TLA+ strings, "" standing for an    *)
(* absent / null / empty (falsy) value.                                    *)
(***************************************************************************)
EXTENDS Integers, Sequences, FiniteSets, TLC

VARIABLES
    pc,        \* position of the handler: "idle", "request", "streaming", "calling",
               \* "received", "translated", "ended"
    state,     \* the StreamState of the reply
    chunks,    \* provider chunks handed to translateStreamChunk so far, in order
    written,   \* events written to the client with res.write, in order
    steps,     \* history: the steps of the translateStreamChunk calls so far, in order
    threw,     \* TRUE once translateStreamChunk raised an exception
    failure,   \* history: how the provider call of the request failed, "" if it did not
    anthropicRequest,  \* the inbound request (req.body)
    cerebrasRequest,  \* the provider request translateRequest returned
    cerebrasResponse,  \* the provider's reply to createCompletion
    response,  \* status and body sent with res.status(...).json(...) / res.json(...)
    called,    \* history: translateRequest and provider calls made for the request
    outcomes,  \* history: how each earlier request of this server ended
    cleaned,   \* history: the results of cleaning a tool's parameters again and again
    received,  \* history: the values reader.read() returned in createCompletionStream
    buffer,    \* createCompletionStream: the text after the last line break read
    pending,   \* createCompletionStream: the lines of the current read not yet handled
    connected, \* FALSE once the caller of the streaming request has disconnected
    handlers   \* the streaming handlers of two requests that are open at the same time

\* the variables of the provider client, of the schema cleaner and of concurrent handlers
otherVars == <<cleaned, received, buffer, pending, connected, handlers>>

vars == <<pc, state, chunks, written, steps, threw, failure, anthropicRequest,
         cerebrasRequest, cerebrasResponse, response, called, outcomes, cleaned,
         received, buffer, pending, connected, handlers>>

----------------------------------------------------------------------------
(* Bounds of the model                                                     *)

MaxChunks == 3

\* blocks in the content of one inbound message
MaxBlocks == 2

\* requests one server handles, one after the other
MaxRequests == 2

\* nesting depth of the schema trees given to the schema cleaner
MaxSchemaDepth == 2

\* times the parameters of a translated tool are cleaned again
MaxCleanings == 2

\* values reader.read() returns for one provider stream
MaxReads == 3

\* chunks of each of the two provider streams that are open at the same time
MaxHandlerChunks == 2

\* chunks of one reply in the replies with text and two tool calls
MaxReplyChunks == 5

----------------------------------------------------------------------------
(* Input alphabets                                                         *)

MessageIds == {"msg_A"}
OriginalModels == {"claude-x"}

EmptyStr == << >>

\* delta.content values: absent/null/"" (falsy) or a non-empty text
TextDeltas == {EmptyStr, <<"a">>, <<"b">>}

\* function.arguments values: absent/"" (falsy) or a fragment of JSON text
ArgFragments == {EmptyStr, <<"{">>}

\* fragments that only arrive alone, after the call was opened: "{" then "}" is the
\* JSON text {}, "1" is the JSON text 1
LateFragments == {<<"}">>, <<"1">>}

\* choice.finish_reason values: null ("") , the four of the type, and any other string
FinishReasons == {"", "stop", "length", "tool_calls", "content_filter", "eos"}

\* DeltaToolCall: index, id?, function?.name, function?.arguments
DeltaToolCalls ==
    [index : {0, 1}, id : {"", "call_X"}, name : {"", "f"}, arguments : ArgFragments]

ToolCall(i, id, name, args) == [index |-> i, id |-> id, name |-> name, arguments |-> args]

\* A chunk: choices[0] present or not, delta.content, delta.tool_calls (absent or a list),
\* finish_reason
Chunk(content, hasCalls, calls, fin) ==
    [hasChoice |-> TRUE, content |-> content, hasToolCalls |-> hasCalls,
     tool_calls |-> calls, finish_reason |-> fin]

NoChoiceChunk ==
    [hasChoice |-> FALSE, content |-> EmptyStr, hasToolCalls |-> FALSE,
     tool_calls |-> << >>, finish_reason |-> ""]

TextChunks == {Chunk(t, FALSE, << >>, "") : t \in TextDeltas}

ToolChunks ==
    {Chunk(EmptyStr, TRUE, <<d>>, "") : d \in DeltaToolCalls}
    \cup {Chunk(EmptyStr, TRUE, <<ToolCall(0, "", "", a)>>, "") : a \in LateFragments}
    \cup {Chunk(EmptyStr, TRUE, << >>, ""),
          Chunk(EmptyStr, TRUE,
                <<ToolCall(0, "call_X", "f", EmptyStr), ToolCall(1, "call_X", "f", EmptyStr)>>,
                "")}

FinishChunks == {Chunk(EmptyStr, FALSE, << >>, f) : f \in FinishReasons \ {""}}

\* chunks in which text, tool calls and finish coexist (the translator does not
\* assume they are exclusive)
MixedChunks ==
    {Chunk(<<"a">>, TRUE, <<ToolCall(0, "call_X", "f", <<"{">>)>>, ""),
     Chunk(<<"a">>, FALSE, << >>, "stop"),
     Chunk(EmptyStr, TRUE, <<ToolCall(0, "call_X", "f", <<"{">>)>>, "tool_calls"),
     Chunk(<<"a">>, TRUE, <<ToolCall(0, "call_X", "f", <<"}">>)>>, "stop")}

\* a final chunk on which the provider reports its token usage (a member the
\* ChatCompletionsChunk type does not declare and the translator never reads)
UsageChunk ==
    [hasChoice |-> TRUE, content |-> EmptyStr, hasToolCalls |-> FALSE,
     tool_calls |-> << >>, finish_reason |-> "stop",
     usage |-> [prompt_tokens |-> 1, completion_tokens |-> 1]]

Chunks ==
    {NoChoiceChunk, UsageChunk} \cup TextChunks \cup ToolChunks \cup FinishChunks
    \cup MixedChunks

----------------------------------------------------------------------------
(* JSON.parse on the argument alphabet                                     *)

EmptyObject == [json |-> "object", members |-> << >>]

\* JSON.parse(s) for s over the characters "{", "}" and "1": the only JSON texts
\* are the empty object and the (digit-sequence) numbers; anything else is a
\* SyntaxError.
JsonParse(s) ==
    IF s = <<"{", "}">>
    THEN [ok |-> TRUE, value |-> EmptyObject]
    ELSE IF Len(s) >= 1 /\ \A i \in 1..Len(s) : s[i] = "1"
    THEN [ok |-> TRUE, value |-> [json |-> "number", digits |-> s]]
    ELSE [ok |-> FALSE, value |-> EmptyObject]

----------------------------------------------------------------------------
(* StreamState                                                             *)

createStreamState(originalModel, id) ==
    [messageId |-> id,
     model |-> originalModel,
     contentBlocks |-> << >>,
     currentBlockIndex |-> -1,
     toolCallStates |-> << >>,      \* Map in insertion order: <<[key, id, name, ...], ...>>
     inputTokens |-> 0,
     outputTokens |-> 0,
     textBuffer |-> EmptyStr,
     textBlockStarted |-> FALSE]

\* Map.get(key): position of the entry for key in insertion order, 0 if none
MapPos(m, key) ==
    IF \E i \in 1..Len(m) : m[i].key = key
    THEN CHOOSE i \in 1..Len(m) : m[i].key = key
    ELSE 0

----------------------------------------------------------------------------
(* Events                                                                  *)

TextStart(i) ==
    [type |-> "content_block_start", index |-> i,
     content_block |-> [type |-> "text", text |-> EmptyStr]]

ToolStart(i, id, name) ==
    [type |-> "content_block_start", index |-> i,
     content_block |-> [type |-> "tool_use", id |-> id, name |-> name, input |-> EmptyObject]]

TextDelta(i, t) ==
    [type |-> "content_block_delta", index |-> i,
     delta |-> [type |-> "text_delta", text |-> t]]

JsonDelta(i, a) ==
    [type |-> "content_block_delta", index |-> i,
     delta |-> [type |-> "input_json_delta", partial_json |-> a]]

BlockStop(i) == [type |-> "content_block_stop", index |-> i]

MessageDelta(reason, out) ==
    [type |-> "message_delta",
     delta |-> [stop_reason |-> reason, stop_sequence |-> "null"],
     usage |-> [output_tokens |-> out]]

MessageStop == [type |-> "message_stop"]

Ping == [type |-> "ping"]

ErrorEvent == [type |-> "error", error |-> [type |-> "api_error"]]

createMessageStartEvent(s) ==
    [type |-> "message_start",
     message |-> [id |-> s.messageId, type |-> "message", role |-> "assistant",
                  model |-> s.model, content |-> << >>, stop_reason |-> "null",
                  stop_sequence |-> "null",
                  usage |-> [input_tokens |-> s.inputTokens, output_tokens |-> 0]]]

----------------------------------------------------------------------------
(* translateStopReason                                                     *)

\* translateStopReason without the precedence of tool calls over the finish reason
translateStopReason_IgnoresToolCalls(finishReason, hasToolCalls) ==
    CASE finishReason = "stop" -> "end_turn"
      [] finishReason = "length" -> "max_tokens"
      [] finishReason = "tool_calls" -> "tool_use"
      [] finishReason = "content_filter" -> "end_turn"
      [] OTHER -> "null"

translateStopReason_LengthIsEndTurn(finishReason, hasToolCalls) ==
    IF hasToolCalls THEN "tool_use"
    ELSE CASE finishReason = "stop" -> "end_turn"
           [] finishReason = "length" -> "end_turn"
           [] finishReason = "tool_calls" -> "tool_use"
           [] finishReason = "content_filter" -> "end_turn"
           [] OTHER -> "null"

translateStopReason(finishReason, hasToolCalls) ==
    IF hasToolCalls THEN "tool_use"
    ELSE CASE finishReason = "stop" -> "end_turn"
           [] finishReason = "length" -> "max_tokens"
           [] finishReason = "tool_calls" -> "tool_use"
           [] finishReason = "content_filter" -> "end_turn"
           [] OTHER -> "null"

----------------------------------------------------------------------------------------------------------------------------------------
(* translateStreamChunk, branch by branch.  A context c is the StreamState *)
(* being mutated, the local events array, and (history only, read by no    *)
(* branch) the steps the call has performed: every events.push and every   *)
(* registration of a tool call, in execution order.  pos is the provider   *)
(* position a step was made for, -1 for a step of the text or finish       *)
(* branch.                                                                 *)

Ctx(s) == [state |-> s, events |-> << >>, steps |-> << >>]

Push(c, pos, e) ==
    [c EXCEPT !.events = Append(@, e),
              !.steps = Append(@, [op |-> "push", pos |-> pos, event |-> e])]

\* HandleText with the delta event carrying the accumulated buffer instead of the
\* incremental fragment
HandleText_SendsBuffer(c, content) ==
    IF content = EmptyStr THEN c
    ELSE LET opened ==
                 IF ~c.state.textBlockStarted
                 THEN LET c1 == [c EXCEPT !.state.textBlockStarted = TRUE,
                                          !.state.currentBlockIndex = @ + 1]
                      IN  Push(c1, -1, TextStart(c1.state.currentBlockIndex))
                 ELSE c
             c2 == [opened EXCEPT !.state.textBuffer = @ \o content]
         IN  Push(c2, -1, TextDelta(c2.state.currentBlockIndex, c2.state.textBuffer))

\* HandleText with an empty delta opening a text unit as any other delta does
HandleText_OpensOnEmpty(c, content) ==
    LET opened ==
            IF ~c.state.textBlockStarted
            THEN LET c1 == [c EXCEPT !.state.textBlockStarted = TRUE,
                                     !.state.currentBlockIndex = @ + 1]
                 IN  Push(c1, -1, TextStart(c1.state.currentBlockIndex))
            ELSE c
        c2 == [opened EXCEPT !.state.textBuffer = @ \o content]
    IN  Push(c2, -1, TextDelta(c2.state.currentBlockIndex, content))

\* if (delta.content) { ... }
HandleText(c, content) ==
    IF content = EmptyStr THEN c
    ELSE LET opened ==
                 IF ~c.state.textBlockStarted
                 THEN LET c1 == [c EXCEPT !.state.textBlockStarted = TRUE,
                                          !.state.currentBlockIndex = @ + 1]
                      IN  Push(c1, -1, TextStart(c1.state.currentBlockIndex))
                 ELSE c
             c2 == [opened EXCEPT !.state.textBuffer = @ \o content]
         IN  Push(c2, -1, TextDelta(c2.state.currentBlockIndex, content))

\* CloseTextForTools without the reset of textBlockStarted
CloseTextForTools_StaysOpen(c) ==
    IF c.state.textBlockStarted /\ c.state.textBuffer # EmptyStr
    THEN LET c1 == Push(c, -1, BlockStop(c.state.currentBlockIndex))
         IN  [c1 EXCEPT
                 !.state.contentBlocks =
                     Append(@, [type |-> "text", text |-> c.state.textBuffer]),
                 !.state.textBuffer = EmptyStr]
    ELSE c

\* "Close text block if needed", at the head of the tool-call branch
CloseTextForTools(c) ==
    IF c.state.textBlockStarted /\ c.state.textBuffer # EmptyStr
    THEN LET c1 == Push(c, -1, BlockStop(c.state.currentBlockIndex))
         IN  [c1 EXCEPT
                 !.state.contentBlocks =
                     Append(@, [type |-> "text", text |-> c.state.textBuffer]),
                 !.state.textBlockStarted = FALSE,
                 !.state.textBuffer = EmptyStr]
    ELSE c

\* a registration that does not ask for an id
RegisterToolCall_WithoutId(c, toolCall) ==
    IF MapPos(c.state.toolCallStates, toolCall.index) = 0
    THEN [c EXCEPT !.state.currentBlockIndex = @ + 1,
                   !.state.toolCallStates =
                       Append(@, [key |-> toolCall.index,
                                  id |-> toolCall.id,
                                  name |-> toolCall.name,
                                  argumentsBuffer |-> EmptyStr,
                                  startEventSent |-> FALSE]),
                   !.steps = Append(@, [op |-> "register", pos |-> toolCall.index,
                                        index |-> c.state.currentBlockIndex + 1])]
    ELSE c

\* "New tool call": register the provider position when unseen and an id is carried
RegisterToolCall(c, toolCall) ==
    IF MapPos(c.state.toolCallStates, toolCall.index) = 0 /\ toolCall.id # ""
    THEN [c EXCEPT !.state.currentBlockIndex = @ + 1,
                   !.state.toolCallStates =
                       Append(@, [key |-> toolCall.index,
                                  id |-> toolCall.id,
                                  name |-> toolCall.name,
                                  argumentsBuffer |-> EmptyStr,
                                  startEventSent |-> FALSE]),
                   !.steps = Append(@, [op |-> "register", pos |-> toolCall.index,
                                        index |-> c.state.currentBlockIndex + 1])]
    ELSE c

\* "Update name if provided"
UpdateName(c, p, toolCall) ==
    IF toolCall.name # ""
    THEN [c EXCEPT !.state.toolCallStates[p].name = toolCall.name]
    ELSE c

\* "Send start event if not yet sent and we have enough info"
SendToolStart(c, p) ==
    LET ts == c.state.toolCallStates[p]
    IN  IF ~ts.startEventSent /\ ts.id # "" /\ ts.name # ""
        THEN LET c1 == Push(c, ts.key, ToolStart(c.state.currentBlockIndex, ts.id, ts.name))
             IN  [c1 EXCEPT !.state.toolCallStates[p].startEventSent = TRUE]
        ELSE c

\* AccumulateArguments with the delta event carrying the accumulated buffer instead
\* of the incremental fragment
AccumulateArguments_SendsBuffer(c, p, toolCall) ==
    IF toolCall.arguments # EmptyStr
    THEN LET c1 == [c EXCEPT !.state.toolCallStates[p].argumentsBuffer =
                                 @ \o toolCall.arguments]
         IN  Push(c1, toolCall.index,
                  JsonDelta(c1.state.currentBlockIndex,
                            c1.state.toolCallStates[p].argumentsBuffer))
    ELSE c

\* "Accumulate arguments"
AccumulateArguments(c, p, toolCall) ==
    IF toolCall.arguments # EmptyStr
    THEN LET c1 == [c EXCEPT !.state.toolCallStates[p].argumentsBuffer =
                                 @ \o toolCall.arguments]
         IN  Push(c1, toolCall.index, JsonDelta(c1.state.currentBlockIndex, toolCall.arguments))
    ELSE c

\* the body of: for (const toolCall of delta.tool_calls)
HandleToolCall(c, toolCall) ==
    LET c1 == RegisterToolCall(c, toolCall)
        p  == MapPos(c1.state.toolCallStates, toolCall.index)
    IN  IF p = 0 THEN c1
        ELSE AccumulateArguments(SendToolStart(UpdateName(c1, p, toolCall), p), p, toolCall)

RECURSIVE HandleToolCallList(_, _)
HandleToolCallList(c, calls) ==
    IF calls = << >> THEN c
    ELSE HandleToolCallList(HandleToolCall(c, Head(calls)), Tail(calls))

\* if (delta.tool_calls) { ... }
HandleToolCalls(c, hasToolCalls, calls) ==
    IF ~hasToolCalls THEN c
    ELSE HandleToolCallList(CloseTextForTools(c), calls)

\* CloseTextAtFinish with the text unit closed but not recorded
CloseTextAtFinish_DropsText(c) ==
    IF c.state.textBlockStarted
    THEN Push(c, -1, BlockStop(c.state.currentBlockIndex))
    ELSE c

\* CloseTextAtFinish with the text unit reset as the arrival of tool calls resets it
CloseTextAtFinish_ResetsText(c) ==
    IF c.state.textBlockStarted
    THEN LET c1 == Push(c, -1, BlockStop(c.state.currentBlockIndex))
         IN  [c1 EXCEPT !.state.contentBlocks =
                            Append(@, [type |-> "text", text |-> c.state.textBuffer]),
                        !.state.textBlockStarted = FALSE,
                        !.state.textBuffer = EmptyStr]
    ELSE c

\* "Close any open text block", at the head of the finish branch
CloseTextAtFinish(c) ==
    IF c.state.textBlockStarted
    THEN LET c1 == Push(c, -1, BlockStop(c.state.currentBlockIndex))
         IN  [c1 EXCEPT !.state.contentBlocks =
                            Append(@, [type |-> "text", text |-> c.state.textBuffer])]
    ELSE c

\* index of the content_block_stop of the tool call at provider position `index`
ToolStopIndex(s, index) ==
    s.currentBlockIndex - (Len(s.toolCallStates) - 1 - index)

\* input: toolState.argumentsBuffer ? JSON.parse(toolState.argumentsBuffer) : {}
\* (ok = FALSE: JSON.parse throws)
FinalInput(argumentsBuffer) ==
    IF argumentsBuffer # EmptyStr THEN JsonParse(argumentsBuffer)
    ELSE [ok |-> TRUE, value |-> EmptyObject]

\* "Close any open tool call blocks": the loop from map entry p on.  A throw of
\* JSON.parse leaves the loop: the result then has threw = TRUE, with the state
\* as mutated so far.
RECURSIVE CloseToolCalls(_, _)
CloseToolCalls(c, p) ==
    IF p > Len(c.state.toolCallStates) THEN [ctx |-> c, threw |-> FALSE]
    ELSE LET ts == c.state.toolCallStates[p]
         IN  IF ~ts.startEventSent THEN CloseToolCalls(c, p + 1)
             ELSE LET c1 == Push(c, ts.key, BlockStop(ToolStopIndex(c.state, ts.key)))
                      input == FinalInput(ts.argumentsBuffer)
                  IN  IF ~input.ok
                      THEN [ctx |-> c1, threw |-> TRUE]
                      ELSE CloseToolCalls(
                               [c1 EXCEPT !.state.contentBlocks =
                                   Append(@, [type |-> "tool_use",
                                              id |-> ts.id,
                                              name |-> ts.name,
                                              input |-> input.value])],
                               p + 1)

\* stop reason of the message_delta: translateStopReason(...) ?? "end_turn"
FinalStopReason(s, finishReason) ==
    LET r == translateStopReason(finishReason, Len(s.toolCallStates) > 0)
    IN  IF r = "null" THEN "end_turn" ELSE r

\* HandleFinish with an empty text unit recorded when the reply has no unit
HandleFinish_SynthesizesText(c, finishReason) ==
    IF finishReason = "" THEN [ctx |-> c, threw |-> FALSE]
    ELSE LET r == CloseToolCalls(CloseTextAtFinish(c), 1)
             filled == IF r.ctx.state.contentBlocks = << >>
                       THEN [r.ctx EXCEPT !.state.contentBlocks =
                                              <<[type |-> "text", text |-> EmptyStr]>>]
                       ELSE r.ctx
         IN  IF r.threw THEN r
             ELSE [ctx |-> Push(Push(filled, -1,
                                     MessageDelta(FinalStopReason(filled.state, finishReason),
                                                  filled.state.outputTokens)),
                                -1, MessageStop),
                   threw |-> FALSE]

\* if (choice.finish_reason) { ... }
HandleFinish(c, finishReason) ==
    IF finishReason = "" THEN [ctx |-> c, threw |-> FALSE]
    ELSE LET r == CloseToolCalls(CloseTextAtFinish(c), 1)
         IN  IF r.threw THEN r
             ELSE [ctx |-> Push(Push(r.ctx, -1,
                                     MessageDelta(FinalStopReason(r.ctx.state, finishReason),
                                                  r.ctx.state.outputTokens)),
                                -1, MessageStop),
                   threw |-> FALSE]

\* chunk.choices is there (chunk.choices[0] is a TypeError without it)
HasChoices(chunk) == "hasChoice" \in DOMAIN chunk

\* translateStreamChunk with the usage a chunk reports copied into the state
translateStreamChunk_CountsUsage(chunk, s) ==
    IF ~HasChoices(chunk)
    THEN [state |-> s, events |-> << >>, steps |-> << >>, threw |-> TRUE]
    ELSE IF ~chunk.hasChoice
    THEN [state |-> s, events |-> << >>, steps |-> << >>, threw |-> FALSE]
    ELSE LET s0 == IF "usage" \in DOMAIN chunk
                   THEN [s EXCEPT !.inputTokens = chunk.usage.prompt_tokens,
                                  !.outputTokens = chunk.usage.completion_tokens]
                   ELSE s
             c1 == HandleText(Ctx(s0), chunk.content)
             c2 == HandleToolCalls(c1, chunk.hasToolCalls, chunk.tool_calls)
             r  == HandleFinish(c2, chunk.finish_reason)
         IN  [state |-> r.ctx.state,
              events |-> IF r.threw THEN << >> ELSE r.ctx.events,
              steps |-> r.ctx.steps,
              threw |-> r.threw]

\* translateStreamChunk(chunk, state): the state after the call, the events it
\* returns (none when it throws instead of returning), the steps it performed
translateStreamChunk(chunk, s) ==
    IF ~HasChoices(chunk)
    THEN [state |-> s, events |-> << >>, steps |-> << >>, threw |-> TRUE]
    ELSE IF ~chunk.hasChoice
    THEN [state |-> s, events |-> << >>, steps |-> << >>, threw |-> FALSE]
    ELSE LET c1 == HandleText(Ctx(s), chunk.content)
             c2 == HandleToolCalls(c1, chunk.hasToolCalls, chunk.tool_calls)
             r  == HandleFinish(c2, chunk.finish_reason)
         IN  [state |-> r.ctx.state,
              events |-> IF r.threw THEN << >> ELSE r.ctx.events,
              steps |-> r.ctx.steps,
              threw |-> r.threw]

----------------------------------------------------------------------------
(* Optional values and strings of the request side                         *)

\* an optional field: absent (undefined) or present with a value
None == << >>
Some(v) == <<v>>
IsSome(o) == Len(o) = 1
Get(o) == o[1]

\* Array.prototype.join: the texts separated by sep
RECURSIVE Join(_, _)
Join(texts, sep) ==
    IF Len(texts) = 0 THEN EmptyStr
    ELSE IF Len(texts) = 1 THEN texts[1]
    ELSE texts[1] \o sep \o Join(Tail(texts), sep)

NewLine == <<"\n">>

ErrorPrefix == <<"E", "r", "r", "o", "r", ":", " ">>

\* content: string | ContentBlock[]
StringContent(s) == [kind |-> "string", text |-> s]
BlockContent(blocks) == [kind |-> "blocks", blocks |-> blocks]

----------------------------------------------------------------------------
(* Anthropic content blocks and messages                                   *)

TextBlock(t) == [type |-> "text", text |-> t]

\* ImageSource: type, media_type?, data?, url? ("" for an absent one)
ImageBlock(type, media, data, url) ==
    [type |-> "image",
     source |-> [type |-> type, media_type |-> media, data |-> data, url |-> url]]

ToolUseBlock(id, name, input) ==
    [type |-> "tool_use", id |-> id, name |-> name, input |-> input]

\* ToolResultBlock: tool_use_id, content (string or blocks), is_error?
ToolResultBlock(id, content, isError) ==
    [type |-> "tool_result", tool_use_id |-> id, content |-> content, is_error |-> isError]

Message(role, content) == [role |-> role, content |-> content]

----------------------------------------------------------------------------
(* translateMessage                                                        *)

IsToolResultBlock(block) == block.type = "tool_result"
IsOtherBlock(block) == block.type # "tool_result"
IsTextBlock(block) == block.type = "text"
IsToolUseBlock(block) == block.type = "tool_use"

\* block => block.text over a list of text blocks
Texts(blocks) == [i \in 1..Len(blocks) |-> blocks[i].text]

\* the content of the tool message of one tool_result block, before the error prefix
ToolResultText(toolResult) ==
    IF toolResult.content.kind = "string"
    THEN toolResult.content.text
    ELSE Join(Texts(SelectSeq(toolResult.content.blocks, IsTextBlock)), NewLine)

ToolMessage_NeverPrefixed(toolResult) ==
    [role |-> "tool",
     content |-> ToolResultText(toolResult),
     tool_call_id |-> toolResult.tool_use_id]

\* results.push({role: "tool", ...}) for one tool_result block
ToolMessage(toolResult) ==
    [role |-> "tool",
     content |-> IF IsSome(toolResult.is_error) /\ Get(toolResult.is_error)
                 THEN ErrorPrefix \o ToolResultText(toolResult)
                 ELSE ToolResultText(toolResult),
     tool_call_id |-> toolResult.tool_use_id]

ToolMessages(toolResults) == [i \in 1..Len(toolResults) |-> ToolMessage(toolResults[i])]

\* `data:${media_type};base64,${data}`
DataUrl(media, data) == "data:" \o media \o ";base64," \o data

\* the parts one non-tool_result block contributes: a text part, an image_url part,
\* or nothing (an image without usable source, or a block of another type)
PartsOfBlock(block) ==
    IF block.type = "text"
    THEN <<[type |-> "text", text |-> block.text]>>
    ELSE IF block.type = "image"
    THEN IF block.source.type = "base64" /\ block.source.data # ""
            /\ block.source.media_type # ""
         THEN <<[type |-> "image_url",
                 image_url |-> [url |-> DataUrl(block.source.media_type,
                                                block.source.data)]]>>
         ELSE IF block.source.type = "url" /\ block.source.url # ""
         THEN <<[type |-> "image_url", image_url |-> [url |-> block.source.url]]>>
         ELSE << >>
    ELSE << >>

RECURSIVE Parts(_)
Parts(blocks) ==
    IF Len(blocks) = 0 THEN << >>
    ELSE PartsOfBlock(Head(blocks)) \o Parts(Tail(blocks))

UserMessages_AlwaysParts(otherBlocks) ==
    IF Len(otherBlocks) = 0 THEN << >>
    ELSE LET parts == Parts(otherBlocks)
         IN  IF Len(parts) > 0
             THEN <<[role |-> "user", content |-> [kind |-> "parts", parts |-> parts]]>>
             ELSE << >>

\* the user message built from the blocks that are not tool results
UserMessages(otherBlocks) ==
    IF Len(otherBlocks) = 0 THEN << >>
    ELSE LET parts == Parts(otherBlocks)
         IN  IF Len(parts) = 1 /\ parts[1].type = "text"
             THEN <<[role |-> "user", content |-> StringContent(parts[1].text)]>>
             ELSE IF Len(parts) > 0
             THEN <<[role |-> "user", content |-> [kind |-> "parts", parts |-> parts]]>>
             ELSE << >>

\* JSON.stringify of a JSON value: an object with its members in order, a number
\* by its digits, a string or a key between quotes
Quoted(s) == <<"\"">> \o s \o <<"\"">>

RECURSIVE JsonStringify(_)
JsonStringify(v) ==
    IF v.json = "object"
    THEN <<"{">>
         \o Join([i \in 1..Len(v.members) |->
                     Quoted(<<v.members[i].key>>) \o <<":">>
                     \o JsonStringify(v.members[i].value)],
                 <<",">>)
         \o <<"}">>
    ELSE IF v.json = "number" THEN v.digits
    ELSE IF v.json = "string" THEN Quoted(<<v.s>>)
    ELSE IF v.json = "boolean" THEN IF v.b THEN <<"true">> ELSE <<"false">>
    ELSE <<"null">>

\* toolUseBlocks.map(block => ({id, type: "function", function: {name, arguments}}))
AssistantToolCalls(toolUseBlocks) ==
    [i \in 1..Len(toolUseBlocks) |->
        [id |-> toolUseBlocks[i].id,
         type |-> "function",
         function |-> [name |-> toolUseBlocks[i].name,
                       arguments |-> JsonStringify(toolUseBlocks[i].input)]]]

\* the assistant message of a block-content assistant message: content is the
\* text blocks joined by newline or null (None); tool_calls only when there are some
AssistantMessage(blocks) ==
    LET textBlocks == SelectSeq(blocks, IsTextBlock)
        toolUseBlocks == SelectSeq(blocks, IsToolUseBlock)
    IN  [role |-> "assistant",
         content |-> IF Len(textBlocks) > 0
                     THEN Some(Join(Texts(textBlocks), NewLine))
                     ELSE None,
         tool_calls |-> IF Len(toolUseBlocks) > 0
                        THEN Some(AssistantToolCalls(toolUseBlocks))
                        ELSE None]

\* translateMessage(message): the provider messages of one inbound message
translateMessage(message) ==
    IF message.role = "user"
    THEN IF message.content.kind = "string"
         THEN <<[role |-> "user", content |-> StringContent(message.content.text)]>>
         ELSE ToolMessages(SelectSeq(message.content.blocks, IsToolResultBlock))
              \o UserMessages(SelectSeq(message.content.blocks, IsOtherBlock))
    ELSE IF message.role = "assistant"
    THEN IF message.content.kind = "string"
         THEN <<[role |-> "assistant", content |-> Some(message.content.text),
                 tool_calls |-> None]>>
         ELSE <<AssistantMessage(message.content.blocks)>>
    ELSE << >>

\* messages.push(...translateMessage(message)) over the inbound messages
RECURSIVE TranslateMessages(_)
TranslateMessages(messages) ==
    IF Len(messages) = 0 THEN << >>
    ELSE translateMessage(Head(messages)) \o TranslateMessages(Tail(messages))

----------------------------------------------------------------------------
(* translateToolChoice                                                     *)

\* Anthropic ToolChoice: type, name (of type "tool", else ""), disable_parallel_tool_use?
ToolChoice(type, name, disable) ==
    [type |-> type, name |-> name, disable_parallel_tool_use |-> disable]

\* Cerebras ToolChoice: one of the strings "none", "auto", "required", or a function
\* selection
ChoiceMode(mode) == [mode |-> mode]
ForcedFunction(name) == [type |-> "function", function |-> [name |-> name]]

translateToolChoice_NoneIsAuto(toolChoice) ==
    IF ~IsSome(toolChoice) THEN ChoiceMode("auto")
    ELSE CASE Get(toolChoice).type = "auto" -> ChoiceMode("auto")
           [] Get(toolChoice).type = "any" -> ChoiceMode("required")
           [] Get(toolChoice).type = "tool" -> ForcedFunction(Get(toolChoice).name)
           [] OTHER -> ChoiceMode("auto")

translateToolChoice(toolChoice) ==
    IF ~IsSome(toolChoice) THEN ChoiceMode("auto")
    ELSE CASE Get(toolChoice).type = "auto" -> ChoiceMode("auto")
           [] Get(toolChoice).type = "any" -> ChoiceMode("required")
           [] Get(toolChoice).type = "tool" -> ForcedFunction(Get(toolChoice).name)
           [] Get(toolChoice).type = "none" -> ChoiceMode("none")
           [] OTHER -> ChoiceMode("auto")

----------------------------------------------------------------------------
(* translateTool: JSON Schema values and cleanSchema                       *)

\* JSON values: objects keep their members in insertion order
JObject(members) == [json |-> "object", members |-> members]
JArray(items) == [json |-> "array", items |-> items]
JString(s) == [json |-> "string", s |-> s]
JBoolean(b) == [json |-> "boolean", b |-> b]
JUndefined == [json |-> "undefined"]
Member(key, value) == [key |-> key, value |-> value]

UNSUPPORTED_SCHEMA_FIELDS ==
    {"format", "pattern", "minLength", "maxLength", "minimum", "maximum",
     "exclusiveMinimum", "exclusiveMaximum", "multipleOf", "minItems", "maxItems",
     "uniqueItems", "minProperties", "maxProperties", "const", "contentEncoding",
     "contentMediaType", "$schema", "$id", "$ref", "$defs", "definitions", "title",
     "examples", "default", "deprecated"}

\* typeof value === "object" && value !== null (true of arrays too)
IsObjectLike(v) == v.json \in {"object", "array"}

\* Object.entries(value): the members of an object, index/value pairs of an array
Entries(v) ==
    IF v.json = "array"
    THEN [i \in 1..Len(v.items) |-> Member(ToString(i - 1), v.items[i])]
    ELSE v.members

HasKey(members, key) == \E i \in 1..Len(members) : members[i].key = key

\* result[key], undefined when the key is not there
Lookup(members, key) ==
    IF HasKey(members, key)
    THEN members[CHOOSE i \in 1..Len(members) : members[i].key = key].value
    ELSE JUndefined

\* a store that adds the key again when the object already has it
SetMember_AlwaysAppends(members, key, value) == Append(members, Member(key, value))

\* result[key] = value: in place when the key exists, appended otherwise
SetMember(members, key, value) ==
    IF HasKey(members, key)
    THEN [i \in 1..Len(members) |->
            IF members[i].key = key THEN Member(key, value) ELSE members[i]]
    ELSE Append(members, Member(key, value))

\* !value
Falsy(v) ==
    \/ v.json \in {"undefined", "null"}
    \/ v.json = "boolean" /\ ~v.b
    \/ v.json = "string" /\ v.s = ""

RECURSIVE cleanSchema(_), CleanValue(_, _), CleanEntries(_), CleanProps(_)

\* the loop over Object.entries(schema): unsupported keys are skipped
CleanEntries(entries) ==
    IF Len(entries) = 0 THEN << >>
    ELSE IF Head(entries).key \in UNSUPPORTED_SCHEMA_FIELDS
    THEN CleanEntries(Tail(entries))
    ELSE <<Member(Head(entries).key, CleanValue(Head(entries).key, Head(entries).value))>>
         \o CleanEntries(Tail(entries))

\* the loop over the entries of "properties": every property name is kept
CleanProps(entries) ==
    [i \in 1..Len(entries) |->
        Member(entries[i].key,
               IF IsObjectLike(entries[i].value) THEN cleanSchema(entries[i].value)
               ELSE entries[i].value)]

\* a cleaner that copies the value of "items" as it is
CleanValue_SkipsItems(key, value) ==
    IF key = "properties" /\ IsObjectLike(value)
    THEN JObject(CleanProps(Entries(value)))
    ELSE IF key \in {"anyOf", "oneOf", "allOf"} /\ value.json = "array"
    THEN JArray([i \in 1..Len(value.items) |->
                    IF IsObjectLike(value.items[i]) THEN cleanSchema(value.items[i])
                    ELSE value.items[i]])
    ELSE IF value.json = "object" /\ key # "items"
    THEN cleanSchema(value)
    ELSE value

CleanValue(key, value) ==
    IF key = "properties" /\ IsObjectLike(value)
    THEN JObject(CleanProps(Entries(value)))
    ELSE IF key = "items" /\ IsObjectLike(value)
    THEN cleanSchema(value)
    ELSE IF key \in {"anyOf", "oneOf", "allOf"} /\ value.json = "array"
    THEN JArray([i \in 1..Len(value.items) |->
                    IF IsObjectLike(value.items[i]) THEN cleanSchema(value.items[i])
                    ELSE value.items[i]])
    ELSE IF value.json = "object"
    THEN cleanSchema(value)
    ELSE value

cleanSchema(schema) ==
    LET result == CleanEntries(Entries(schema))
        closed == SetMember(result, "additionalProperties", JBoolean(FALSE))
    IN  IF Lookup(result, "type") = JString("object")
        THEN IF /\ Falsy(Lookup(closed, "properties")) /\ Falsy(Lookup(closed, "anyOf"))
                /\ Falsy(Lookup(closed, "oneOf")) /\ Falsy(Lookup(closed, "allOf"))
             THEN JObject(SetMember(closed, "properties", JObject(<< >>)))
             ELSE JObject(closed)
        ELSE JObject(result)

\* Anthropic Tool: name, description?, input_schema? (properties?, required?)
Tool(name, description, inputSchema) ==
    [name |-> name, description |-> description, input_schema |-> inputSchema]

InputSchema(properties, required) == [properties |-> properties, required |-> required]

EmptyParameters ==
    JObject(<<Member("type", JString("object")),
              Member("properties", JObject(<< >>)),
              Member("additionalProperties", JBoolean(FALSE))>>)

translateTool(tool) ==
    [type |-> "function",
     function |->
        [name |-> tool.name,
         description |-> tool.description,
         parameters |->
            IF \/ ~IsSome(tool.input_schema)
               \/ ~IsSome(Get(tool.input_schema).properties)
               \/ Len(Entries(Get(Get(tool.input_schema).properties))) = 0
            THEN EmptyParameters
            ELSE cleanSchema(JObject(
                    <<Member("type", JString("object")),
                      Member("properties", Get(Get(tool.input_schema).properties)),
                      Member("required",
                             IF IsSome(Get(tool.input_schema).required)
                             THEN Get(Get(tool.input_schema).required)
                             ELSE JUndefined)>>))]]

----------------------------------------------------------------------------
(* translateRequest                                                        *)

CEREBRAS_MODEL == "zai-glm-4.6"

\* Anthropic MessagesRequest; model "" stands for an absent (or empty) model
MessagesRequest(model, maxTokens, messages, system, temperature, topP, stops, stream, tools, choice) ==
    [model |-> model, max_tokens |-> maxTokens, messages |-> messages,
     system |-> system, temperature |-> temperature, top_p |-> topP,
     stop_sequences |-> stops, stream |-> stream, tools |-> tools,
     tool_choice |-> choice]

\* the system message, if anthropicRequest.system is truthy (a non-empty string or
\* any list of text blocks)
SystemMessages(system) ==
    IF ~IsSome(system) THEN << >>
    ELSE IF Get(system).kind = "string"
    THEN IF Get(system).text = EmptyStr THEN << >>
         ELSE <<[role |-> "system", content |-> Get(system).text]>>
    ELSE <<[role |-> "system", content |-> Join(Texts(Get(system).blocks), NewLine)]>>

ParallelToolCalls_IgnoresFlag(toolChoice) == TRUE

\* !disableParallel, disableParallel being the tool choice's
\* disable_parallel_tool_use when both are there
ParallelToolCalls(toolChoice) ==
    ~(/\ IsSome(toolChoice)
      /\ IsSome(Get(toolChoice).disable_parallel_tool_use)
      /\ Get(Get(toolChoice).disable_parallel_tool_use))

\* anthropicRequest.tools && anthropicRequest.tools.length > 0
HasTools(req) == IsSome(req.tools) /\ Len(Get(req.tools)) > 0

\* a present value that is not falsy
Truthy(o) == IF o = Some(0) THEN None ELSE o

translateRequest_DropsZero(req) ==
    [model |-> CEREBRAS_MODEL,
     messages |-> SystemMessages(req.system) \o TranslateMessages(Get(req.messages)),
     max_completion_tokens |-> req.max_tokens,
     stream |-> IF IsSome(req.stream) THEN Get(req.stream) ELSE FALSE,
     temperature |-> Truthy(req.temperature),
     top_p |-> Truthy(req.top_p),
     stop |-> req.stop_sequences,
     tools |-> IF HasTools(req)
               THEN Some([i \in 1..Len(Get(req.tools)) |-> translateTool(Get(req.tools)[i])])
               ELSE None,
     tool_choice |-> IF HasTools(req) THEN Some(translateToolChoice(req.tool_choice))
                     ELSE None,
     parallel_tool_calls |-> IF HasTools(req) THEN Some(ParallelToolCalls(req.tool_choice))
                             ELSE None]

translateRequest(req) ==
    [model |-> CEREBRAS_MODEL,
     messages |-> SystemMessages(req.system)
                  \o TranslateMessages(Get(req.messages)),
     max_completion_tokens |-> req.max_tokens,
     stream |-> IF IsSome(req.stream) THEN Get(req.stream)
                ELSE FALSE,
     temperature |-> req.temperature,
     top_p |-> req.top_p,
     stop |-> req.stop_sequences,
     tools |-> IF HasTools(req)
               THEN Some([i \in 1..Len(Get(req.tools)) |->
                            translateTool(Get(req.tools)[i])])
               ELSE None,
     tool_choice |-> IF HasTools(req)
                     THEN Some(translateToolChoice(req.tool_choice))
                     ELSE None,
     parallel_tool_calls |-> IF HasTools(req)
                             THEN Some(ParallelToolCalls(req.tool_choice))
                             ELSE None]

\* before any request was translated
NoCerebrasRequest == [model |-> ""]

----------------------------------------------------------------------------
(* Inbound requests                                                        *)

TextValues == {<<"a">>, <<"b">>}
ToolUseIds == {"toolu_1", "toolu_2"}
OptionalFlags == {None, Some(TRUE), Some(FALSE)}

UrlImage == ImageBlock("url", "", "", "http://img")

ImageBlocks ==
    {ImageBlock("base64", "image/png", "QUJD", ""),
     ImageBlock("base64", "image/png", "", ""),
     UrlImage,
     ImageBlock("url", "", "", "")}

\* tool_result content: a string, or a list of blocks of which the text ones count
ResultContents ==
    {StringContent(<<"r">>), StringContent(EmptyStr),
     BlockContent(<<TextBlock(<<"a">>), UrlImage, TextBlock(<<"b">>)>>),
     BlockContent(<< >>)}

ToolResultBlocks ==
    {ToolResultBlock(id, c, e) : id \in ToolUseIds, c \in ResultContents, e \in OptionalFlags}

UserBlocks == {TextBlock(t) : t \in TextValues} \cup ImageBlocks \cup ToolResultBlocks

AssistantBlocks ==
    {TextBlock(t) : t \in TextValues}
    \cup {ToolUseBlock("toolu_1", "f", EmptyObject),
          ToolUseBlock("toolu_2", "g",
                       JObject(<<Member("k", [json |-> "number", digits |-> <<"1">>])>>))}

\* the lists of at most MaxBlocks blocks
BlockLists(blocks) == UNION {[1..n -> blocks] : n \in 0..MaxBlocks}

UserMessageSet ==
    {Message("user", StringContent(t)) : t \in TextValues \cup {EmptyStr}}
    \cup {Message("user", BlockContent(bs)) : bs \in BlockLists(UserBlocks)}

AssistantMessageSet ==
    {Message("assistant", StringContent(t)) : t \in TextValues}
    \cup {Message("assistant", BlockContent(bs)) : bs \in BlockLists(AssistantBlocks)}

HelloMessage == Message("user", StringContent(<<"a">>))

\* a request with only the required fields
BasicRequest(messages) ==
    MessagesRequest("claude-x", Some(100), Some(messages), None, None, None, None, None,
                    None, None)

\* requests that differ in their messages
MessageRequests ==
    {BasicRequest(<<m>>) : m \in UserMessageSet \cup AssistantMessageSet}
    \cup {BasicRequest(<<HelloMessage,
                         Message("assistant",
                                 BlockContent(<<ToolUseBlock("toolu_1", "f", EmptyObject)>>)),
                         Message("user",
                                 BlockContent(<<ToolResultBlock("toolu_1",
                                                                StringContent(<<"r">>),
                                                                None)>>))>>)}

PlainTool == Tool("f", Some(<<"d">>), None)

SchemaTool ==
    Tool("g", None,
         Some(InputSchema(
            Some(JObject(<<Member("location",
                                  JObject(<<Member("type", JString("string")),
                                            Member("format", JString("city"))>>)),
                           Member("options",
                                  JObject(<<Member("type", JString("object"))>>))>>)),
            Some(JArray(<<JString("location")>>)))))

ToolLists == {None, Some(<< >>), Some(<<PlainTool>>), Some(<<PlainTool, SchemaTool>>)}

ToolChoices ==
    {None}
    \cup {Some(ToolChoice(t, "", d)) : t \in {"auto", "any", "none"}, d \in OptionalFlags}
    \cup {Some(ToolChoice("tool", n, d)) : n \in {"f", "g"}, d \in OptionalFlags}

\* requests that differ in their tools and tool choice
ToolRequests ==
    {MessagesRequest("claude-x", Some(100), Some(<<HelloMessage>>), None, None, None, None,
                     None, tools, choice) : tools \in ToolLists, choice \in ToolChoices}

SystemPrompts ==
    {None, Some(StringContent(EmptyStr)), Some(StringContent(<<"s">>)),
     Some(BlockContent(<< >>)),
     Some(BlockContent(<<TextBlock(<<"a">>), TextBlock(<<"b">>)>>))}

\* requests that differ in their system prompt and sampling parameters
ParameterRequests ==
    {MessagesRequest("claude-x", Some(n), Some(<<HelloMessage>>), system, t, t, stop, stream,
                     None, None) :
        n \in {1, 100}, system \in SystemPrompts, t \in {None, Some(0), Some(1)},
        stop \in {None, Some(<< >>), Some(<<"x">>)}, stream \in OptionalFlags}

TranslatedRequests == MessageRequests \cup ToolRequests \cup ParameterRequests

\* the requests the server is sent: each required field there or not, streaming or not
ServerRequests ==
    {MessagesRequest(model, n, messages, None, None, None, None, stream, None, None) :
        model \in {"", "claude-x", "claude-y"}, n \in {None, Some(0), Some(100)},
        messages \in {None, Some(<< >>), Some(<<HelloMessage>>)},
        stream \in OptionalFlags}

----------------------------------------------------------------------------
(* translateResponse                                                       *)

\* Cerebras ToolCall of a reply: id, function.name, function.arguments
ReplyToolCall(id, name, arguments) ==
    [id |-> id, type |-> "function", function |-> [name |-> name, arguments |-> arguments]]

\* Choice: message.content (EmptyStr for null or ""), message.tool_calls?, finish_reason
Choice(content, toolCalls, finishReason) ==
    [message |-> [role |-> "assistant", content |-> content, tool_calls |-> toolCalls],
     finish_reason |-> finishReason]

ChatCompletionsResponse(id, choices) ==
    [id |-> id, model |-> CEREBRAS_MODEL, choices |-> choices,
     usage |-> [prompt_tokens |-> 3, completion_tokens |-> 5, total_tokens |-> 8]]

\* function.arguments of a reply: two JSON texts and two strings JSON.parse rejects
ArgumentTexts == {<<"{", "}">>, <<"1">>, <<"{">>, EmptyStr}

ReplyToolCallLists ==
    {None, Some(<< >>)}
    \cup {Some(<<ReplyToolCall("call_1", "f", a)>>) : a \in ArgumentTexts}
    \cup {Some(<<ReplyToolCall("call_1", "f", a), ReplyToolCall("call_2", "g", b)>>) :
             a \in ArgumentTexts, b \in ArgumentTexts}

Choices ==
    {Choice(content, calls, fin) :
        content \in {EmptyStr, <<"a">>}, calls \in ReplyToolCallLists, fin \in FinishReasons}

CerebrasResponses ==
    {ChatCompletionsResponse("chatcmpl-1", << >>)}
    \cup {ChatCompletionsResponse("chatcmpl-1", <<c>>) : c \in Choices}
    \cup {ChatCompletionsResponse("chatcmpl-1",
                                  <<Choice(<<"a">>, None, "stop"),
                                    Choice(<<"b">>, None, "length")>>)}

\* the outcome of a call that returns a value or throws an Error with a message
Returned(value) == [ok |-> TRUE, value |-> value, message |-> ""]
Thrown(message) == [ok |-> FALSE, value |-> EmptyObject, message |-> message]

ToolUseInput_DefaultsToEmptyObject(arguments) ==
    IF JsonParse(arguments).ok THEN Returned(JsonParse(arguments).value)
    ELSE Returned(EmptyObject)

\* input: JSON.parse(toolCall.function.arguments), not guarded
ToolUseInput(arguments) ==
    IF JsonParse(arguments).ok THEN Returned(JsonParse(arguments).value)
    ELSE Thrown("SyntaxError")

\* the loop over choice.message.tool_calls: the tool_use blocks, or the first throw
RECURSIVE ToolUseBlocks(_)
ToolUseBlocks(toolCalls) ==
    IF Len(toolCalls) = 0 THEN Returned(<< >>)
    ELSE LET input == ToolUseInput(Head(toolCalls).function.arguments)
             rest == ToolUseBlocks(Tail(toolCalls))
         IN  IF ~input.ok THEN input
             ELSE IF ~rest.ok THEN rest
             ELSE Returned(<<ToolUseBlock(Head(toolCalls).id, Head(toolCalls).function.name,
                                          input.value)>> \o rest.value)

ResponseContent_MayBeEmpty(choice) ==
    LET text == IF choice.message.content # EmptyStr
                THEN <<TextBlock(choice.message.content)>> ELSE << >>
        tools == IF IsSome(choice.message.tool_calls)
                 THEN ToolUseBlocks(Get(choice.message.tool_calls))
                 ELSE Returned(<< >>)
    IN  IF ~tools.ok THEN tools
        ELSE Returned(text \o tools.value)

\* the content list: the text block if message.content is truthy, the tool_use
\* blocks, and an empty text block if there is nothing else
ResponseContent(choice) ==
    LET text == IF choice.message.content # EmptyStr
                THEN <<TextBlock(choice.message.content)>> ELSE << >>
        tools == IF IsSome(choice.message.tool_calls)
                 THEN ToolUseBlocks(Get(choice.message.tool_calls))
                 ELSE Returned(<< >>)
    IN  IF ~tools.ok THEN tools
        ELSE IF Len(text \o tools.value) = 0 THEN Returned(<<TextBlock(EmptyStr)>>)
        ELSE Returned(text \o tools.value)

\* toolCalls && toolCalls.length > 0
HasToolCalls(message) == IsSome(message.tool_calls) /\ Len(Get(message.tool_calls)) > 0

\* a reply that names the provider's model
MessagesResponse_ProviderModel(resp, originalModel, content, stopReason) ==
    [id |-> "msg_" \o resp.id,
     type |-> "message",
     role |-> "assistant",
     model |-> resp.model,
     content |-> content,
     stop_reason |-> stopReason,
     stop_sequence |-> "null",
     usage |-> [input_tokens |-> resp.usage.prompt_tokens,
                output_tokens |-> resp.usage.completion_tokens]]

MessagesResponse(resp, originalModel, content, stopReason) ==
    [id |-> "msg_" \o resp.id,
     type |-> "message",
     role |-> "assistant",
     model |-> originalModel,
     content |-> content,
     stop_reason |-> stopReason,
     stop_sequence |-> "null",
     usage |-> [input_tokens |-> resp.usage.prompt_tokens,
                output_tokens |-> resp.usage.completion_tokens]]

translateResponse_AcceptsNoChoice(resp, originalModel) ==
    IF Len(resp.choices) = 0
    THEN Returned(MessagesResponse(resp, originalModel, << >>, "null"))
    ELSE LET choice == resp.choices[1]
             content == ResponseContent(choice)
         IN  IF ~content.ok THEN content
             ELSE Returned(MessagesResponse(
                     resp, originalModel, content.value,
                     translateStopReason(choice.finish_reason,
                                         HasToolCalls(choice.message))))

translateResponse(resp, originalModel) ==
    IF Len(resp.choices) = 0
    THEN Thrown("No choices in Cerebras response")
    ELSE LET choice == resp.choices[1]
             content == ResponseContent(choice)
         IN  IF ~content.ok THEN content
             ELSE Returned(MessagesResponse(
                     resp, originalModel, content.value,
                     translateStopReason(choice.finish_reason,
                                         HasToolCalls(choice.message))))

----------------------------------------------------------------------------
(* handleStreamingResponse                                                 *)

\* the request handleStreamingResponse is called for
StreamingRequest(model) ==
    MessagesRequest(model, Some(100), Some(<<HelloMessage>>), None, None, None, None,
                    Some(TRUE), None, None)

NoResponse == [status |-> 0]
NoReply == [id |-> ""]

\* the headers and status of the event stream, sent with the first res.write
EventStream == [status |-> 200, body |-> [type |-> "event-stream"]]

NoHandlers == << >>

\* no read of a provider stream, no cleaning, a connected caller, no second handler
OtherInit ==
    /\ cleaned = << >>
    /\ received = << >>
    /\ buffer = EmptyStr
    /\ pending = << >>
    /\ connected = TRUE
    /\ handlers = NoHandlers

Init ==
    /\ pc = "request"
    /\ \E m \in OriginalModels, id \in MessageIds :
         /\ state = createStreamState(m, id)
         /\ anthropicRequest = StreamingRequest(m)
         /\ cerebrasRequest = translateRequest(StreamingRequest(m))
    /\ chunks = << >>
    /\ written = << >>
    /\ steps = << >>
    /\ threw = FALSE
    /\ failure = ""
    /\ cerebrasResponse = NoReply
    /\ response = NoResponse
    /\ called = <<"translateRequest">>
    /\ outcomes = << >>
    /\ OtherInit

\* res.write(message_start); res.write(ping); then the provider stream is opened
SendInitialEvents ==
    /\ pc = "request"
    /\ written' = written \o <<createMessageStartEvent(state), Ping>>
    /\ response' = EventStream
    /\ called' = Append(called, "createCompletionStream")
    /\ pc' = "streaming"
    /\ UNCHANGED <<state, chunks, steps, threw, failure, anthropicRequest, cerebrasRequest,
                   cerebrasResponse, outcomes>>
    /\ UNCHANGED otherVars

\* one iteration of: for await (const chunk of client.createCompletionStream(...))
\* A throw of translateStreamChunk lands in the catch block: one error event,
\* then res.end().
OnChunkOf(chunkSet) ==
    /\ pc = "streaming"
    /\ Len(chunks) < MaxChunks
    /\ \E chunk \in chunkSet :
         LET r == translateStreamChunk(chunk, state)
         IN  /\ chunks' = Append(chunks, chunk)
             /\ state' = r.state
             /\ steps' = steps \o r.steps
             /\ threw' = r.threw
             /\ failure' = IF r.threw THEN "translate" ELSE failure
             /\ written' = IF r.threw THEN Append(written, ErrorEvent)
                           ELSE written \o r.events
             /\ pc' = IF r.threw THEN "ended" ELSE "streaming"
    /\ UNCHANGED <<anthropicRequest, cerebrasRequest, cerebrasResponse, response, called,
                   outcomes>>

OnChunk == OnChunkOf(Chunks) /\ UNCHANGED otherVars

\* StreamEnd with the open text unit and the reply closed before res.end()
StreamEnd_ClosesUnits ==
    /\ pc = "streaming"
    /\ pc' = "ended"
    /\ written' = written
                    \o (IF state.textBlockStarted
                        THEN <<BlockStop(state.currentBlockIndex)>> ELSE << >>)
                    \o <<MessageDelta("end_turn", state.outputTokens), MessageStop>>
    /\ UNCHANGED <<state, chunks, steps, threw, failure, anthropicRequest,
                   cerebrasRequest, cerebrasResponse, response, called, outcomes>>
    /\ UNCHANGED otherVars

\* the provider stream ends ([DONE] or end of body): the loop exits, res.end()
StreamEnd ==
    /\ pc = "streaming"
    /\ pc' = "ended"
    /\ UNCHANGED <<state, chunks, written, steps, threw, failure, anthropicRequest,
                   cerebrasRequest, cerebrasResponse, response, called, outcomes>>
    /\ UNCHANGED otherVars

\* how createCompletionStream fails: a non-2xx status or a missing body when the
\* stream is opened, a failing read at any point
StreamFailures == {"status", "no_body", "read"}

StreamError_Silent ==
    /\ pc = "streaming"
    /\ \E kind \in StreamFailures :
         /\ kind \in {"status", "no_body"} => chunks = << >>
         /\ failure' = kind
    /\ pc' = "ended"
    /\ UNCHANGED <<state, chunks, written, steps, threw, anthropicRequest, cerebrasRequest,
                   cerebrasResponse, response, called, outcomes>>
    /\ UNCHANGED otherVars

\* createCompletionStream throws (non-2xx, no body, connection drop): catch block
StreamError ==
    /\ pc = "streaming"
    /\ \E kind \in StreamFailures :
         /\ kind \in {"status", "no_body"} => chunks = << >>
         /\ failure' = kind
    /\ written' = Append(written, ErrorEvent)
    /\ pc' = "ended"
    /\ UNCHANGED <<state, chunks, steps, threw, anthropicRequest, cerebrasRequest,
                   cerebrasResponse, response, called, outcomes>>
    /\ UNCHANGED otherVars

Next == SendInitialEvents \/ OnChunk \/ StreamEnd \/ StreamError

Spec == Init /\ [][Next]_vars

----------------------------------------------------------------------------
(* POST /v1/messages                                                       *)

NoRequest == [model |-> ""]
NoStreamState == createStreamState("", "")

\* res.status(status).json({type: "error", error: {type, message}})
ErrorResponse(status, type, message) ==
    [status |-> status,
     body |-> [type |-> "error", error |-> [type |-> type, message |-> message]]]

\* the error handler of the app: status 500, err.message || "Internal server error"
InternalError(message) ==
    ErrorResponse(500, "api_error",
                  IF message = "" THEN "Internal server error" ELSE message)

Validate_MessagesFirst(req) ==
    IF ~IsSome(req.messages) \/ Len(Get(req.messages)) = 0
    THEN "messages is required and must not be empty"
    ELSE IF req.model = "" THEN "model is required"
    ELSE IF ~IsSome(req.max_tokens) \/ Get(req.max_tokens) = 0
    THEN "max_tokens is required"
    ELSE ""

\* the validation of the required fields: the message of the first failing check,
\* "" when all pass
Validate(req) ==
    IF req.model = "" THEN "model is required"
    ELSE IF ~IsSome(req.max_tokens) \/ Get(req.max_tokens) = 0
    THEN "max_tokens is required"
    ELSE IF ~IsSome(req.messages) \/ Len(Get(req.messages)) = 0
    THEN "messages is required and must not be empty"
    ELSE ""

\* anthropicRequest.stream is truthy
WantsStream(req) == IsSome(req.stream) /\ Get(req.stream)

\* how the request that just ended went
Outcome == [status |-> response.status, failure |-> failure]

InitServer ==
    /\ pc = "idle"
    /\ state = NoStreamState
    /\ chunks = << >>
    /\ written = << >>
    /\ steps = << >>
    /\ threw = FALSE
    /\ failure = ""
    /\ anthropicRequest = NoRequest
    /\ cerebrasRequest = NoCerebrasRequest
    /\ cerebrasResponse = NoReply
    /\ response = NoResponse
    /\ called = << >>
    /\ outcomes = << >>
    /\ OtherInit

\* the handler of POST /v1/messages up to its first await: a 400 for a request that
\* fails validation; otherwise translateRequest, then either the start of
\* handleStreamingResponse or the call of createCompletion
ReceiveRequest ==
    /\ pc \in {"idle", "ended"}
    /\ Len(outcomes) + (IF pc = "ended" THEN 1 ELSE 0) < MaxRequests
    /\ outcomes' = IF pc = "ended" THEN Append(outcomes, Outcome) ELSE outcomes
    /\ chunks' = << >>
    /\ written' = << >>
    /\ steps' = << >>
    /\ threw' = FALSE
    /\ failure' = ""
    /\ cerebrasResponse' = NoReply
    /\ \E req \in ServerRequests, id \in MessageIds :
         /\ anthropicRequest' = req
         /\ IF Validate(req) # ""
            THEN /\ response' = ErrorResponse(400, "invalid_request_error", Validate(req))
                 /\ cerebrasRequest' = NoCerebrasRequest
                 /\ called' = << >>
                 /\ state' = NoStreamState
                 /\ pc' = "ended"
            ELSE /\ response' = NoResponse
                 /\ cerebrasRequest' = translateRequest(req)
                 /\ IF WantsStream(req)
                    THEN /\ called' = <<"translateRequest">>
                         /\ state' = createStreamState(req.model, id)
                         /\ pc' = "request"
                    ELSE /\ called' = <<"translateRequest", "createCompletion">>
                         /\ state' = NoStreamState
                         /\ pc' = "calling"
    /\ UNCHANGED otherVars

\* createCompletion returns a reply: translateResponse, then res.json(...), or, when
\* translateResponse throws, next(error) and the error handler
CompletionReply ==
    /\ pc = "calling"
    /\ \E r \in CerebrasResponses :
         LET t == translateResponse(r, anthropicRequest.model)
         IN  /\ cerebrasResponse' = r
             /\ response' = IF t.ok THEN [status |-> 200, body |-> t.value]
                            ELSE InternalError(t.message)
    /\ pc' = "ended"
    /\ UNCHANGED <<state, chunks, written, steps, threw, failure, anthropicRequest,
                   cerebrasRequest, called, outcomes>>
    /\ UNCHANGED otherVars

\* createCompletion throws (non-2xx status, network error): next(error)
CompletionError ==
    /\ pc = "calling"
    /\ failure' = "status"
    /\ response' = InternalError("Cerebras API error")
    /\ pc' = "ended"
    /\ UNCHANGED <<state, chunks, written, steps, threw, anthropicRequest, cerebrasRequest,
                   cerebrasResponse, called, outcomes>>
    /\ UNCHANGED otherVars

\* the chunks of the streamed replies of the server: text, a finish, and a tool call
\* whose arguments do not parse when the finish closes it
ServerChunks ==
    {Chunk(<<"a">>, FALSE, << >>, ""),
     Chunk(EmptyStr, FALSE, << >>, "stop"),
     Chunk(EmptyStr, TRUE, <<ToolCall(0, "call_X", "f", <<"{">>)>>, "tool_calls")}

OnServerChunk == OnChunkOf(ServerChunks) /\ UNCHANGED otherVars

NextServer ==
    \/ ReceiveRequest
    \/ SendInitialEvents
    \/ OnServerChunk
    \/ StreamEnd
    \/ StreamError
    \/ CompletionReply
    \/ CompletionError

SpecServer == InitServer /\ [][NextServer]_vars

----------------------------------------------------------------------------
(* translateRequest on its own                                             *)

InitRequest ==
    /\ pc = "received"
    /\ anthropicRequest \in TranslatedRequests
    /\ state = NoStreamState
    /\ chunks = << >>
    /\ written = << >>
    /\ steps = << >>
    /\ threw = FALSE
    /\ failure = ""
    /\ cerebrasRequest = NoCerebrasRequest
    /\ cerebrasResponse = NoReply
    /\ response = NoResponse
    /\ called = << >>
    /\ outcomes = << >>
    /\ OtherInit

\* const cerebrasRequest = translateRequest(anthropicRequest)
TranslateRequest ==
    /\ pc = "received"
    /\ cerebrasRequest' = translateRequest(anthropicRequest)
    /\ called' = Append(called, "translateRequest")
    /\ pc' = "translated"
    /\ UNCHANGED <<state, chunks, written, steps, threw, failure, anthropicRequest,
                   cerebrasResponse, response, outcomes>>
    /\ UNCHANGED otherVars

NextRequest == TranslateRequest

SpecRequest == InitRequest /\ [][NextRequest]_vars

----------------------------------------------------------------------------
(* Reading the histories                                                   *)

IsStart(e) == e.type = "content_block_start"
IsDelta(e) == e.type = "content_block_delta"
IsStop(e) == e.type = "content_block_stop"
IsTranslated(e) == e.type \notin {"message_start", "ping", "error"}

\* the events translateStreamChunk returned so far, in order
Emitted == SelectSeq(written, IsTranslated)

HasFinish(chunk) == chunk.hasChoice /\ chunk.finish_reason # ""

LastChunk == chunks[Len(chunks)]

\* no chunk before the last one carries a finish signal
NoEarlierFinish == \A k \in 1..(Len(chunks) - 1) : ~HasFinish(chunks[k])

\* the last chunk is the only one carrying a finish signal
OnlyLastFinishes == Len(chunks) >= 1 /\ HasFinish(LastChunk) /\ NoEarlierFinish

IsRegister(st) == st.op = "register"
IsToolPush(st) == st.op = "push" /\ st.pos >= 0
IsTextStartPush(st) == st.op = "push" /\ st.pos = -1 /\ IsStart(st.event)
IsTextStopPush(st) == st.op = "push" /\ st.pos = -1 /\ IsStop(st.event)

----------------------------------------------------------------------------
(* C1: the indices carried by the emitted content_block_start events,      *)
(* taken in emission order, are exactly 0, 1, 2, ...                       *)
C1_StartIndicesContiguous ==
    LET starts == SelectSeq(Emitted, IsStart)
    IN  \A k \in 1..Len(starts) : starts[k].index = k - 1

(* C2: when the last chunk is the only one with a finish signal (and the   *)
(* call returned), every content_block_start at index i is followed by     *)
(* exactly one content_block_stop of index i, after every delta of index   *)
(* i, and no content_block_stop carries an index that was never started.   *)
C2_OpenedUnitsClosedOnce ==
    (OnlyLastFinishes /\ ~threw) =>
        LET ev == Emitted
        IN  /\ \A p \in 1..Len(ev) : IsStart(ev[p]) =>
                  \E q \in (p + 1)..Len(ev) :
                     /\ IsStop(ev[q]) /\ ev[q].index = ev[p].index
                     /\ \A r \in 1..Len(ev) :
                           (IsStop(ev[r]) /\ ev[r].index = ev[p].index) => r = q
                     /\ \A r \in 1..Len(ev) :
                           (IsDelta(ev[r]) /\ ev[r].index = ev[p].index) => r < q
            /\ \A q \in 1..Len(ev) : IsStop(ev[q]) =>
                  \E p \in 1..(q - 1) : IsStart(ev[p]) /\ ev[p].index = ev[q].index

(* C3: the tool_use content_block_start and every input_json_delta made    *)
(* for provider position p carry the index that was assigned to p when it  *)
(* was registered.                                                         *)
C3_ToolEventsCarryAssignedIndex ==
    ~threw =>
        \A k \in 1..Len(steps) :
            (IsToolPush(steps[k]) /\ (IsStart(steps[k].event) \/ IsDelta(steps[k].event))) =>
                \E j \in 1..(k - 1) :
                    /\ IsRegister(steps[j])
                    /\ steps[j].pos = steps[k].pos
                    /\ steps[j].index = steps[k].event.index

(* C4: up to and including the finish chunk, once a content_block_stop of  *)
(* index i has been emitted no later content_block_start or                *)
(* content_block_delta carries index i.                                    *)
C4_NoEventAfterStop ==
    NoEarlierFinish =>
        LET ev == Emitted
        IN  \A p \in 1..Len(ev) : \A q \in (p + 1)..Len(ev) :
                (IsStop(ev[p]) /\ (IsStart(ev[q]) \/ IsDelta(ev[q]))) =>
                    ev[q].index # ev[p].index

(* C5: at most one text unit is open at any time; and when a chunk with    *)
(* tool-call deltas arrives while a text unit is open, the call first      *)
(* pushes that unit's content_block_stop, appends the unit to the          *)
(* completed units and clears the open flag and the buffer, before it      *)
(* registers or starts any tool unit of the chunk.                         *)
AtMostOneTextOpen ==
    \A j \in 1..Len(steps) : \A k \in (j + 1)..Len(steps) :
        (IsTextStartPush(steps[j]) /\ IsTextStartPush(steps[k])) =>
            \E m \in (j + 1)..(k - 1) :
                IsTextStopPush(steps[m]) /\ steps[m].event.index = steps[j].event.index

PushedEvents(sts) ==
    LET pushes == SelectSeq(sts, LAMBDA st : st.op = "push")
    IN  [i \in 1..Len(pushes) |-> pushes[i].event]

TextClosedBeforeTools ==
    (/\ Len(chunks') = Len(chunks) + 1
     /\ state.textBlockStarted
     /\ chunks'[Len(chunks')].hasChoice
     /\ chunks'[Len(chunks')].hasToolCalls) =>
        LET chunk == chunks'[Len(chunks')]
            new == SubSeq(steps', Len(steps) + 1, Len(steps'))
            n == Len(state.contentBlocks)
        IN  /\ \E k \in 1..Len(new) :
                  /\ new[k] = [op |-> "push", pos |-> -1,
                               event |-> BlockStop(state.currentBlockIndex)]
                  /\ \A j \in 1..Len(new) :
                        (IsRegister(new[j]) \/ IsToolPush(new[j])) => j > k
            /\ \A j \in 1..Len(new) :
                  IsRegister(new[j]) => new[j].index > state.currentBlockIndex
            /\ Len(state'.contentBlocks) > n
            /\ state'.contentBlocks[n + 1] =
                  [type |-> "text", text |-> state.textBuffer \o chunk.content]
            /\ ~state'.textBlockStarted
            /\ state'.textBuffer = EmptyStr
            /\ ~threw' => SubSeq(written', Len(written) + 1, Len(written')) = PushedEvents(new)

\* C5: at most one text unit open, and an open text unit is closed before the tool
\* units of an arriving tool-call chunk are registered or started
C5_TextClosedBeforeTools == []AtMostOneTextOpen /\ [][TextClosedBeforeTools]_vars

\* a text unit was closed by the tool-call branch and a tool call registered next
C5_Witness ==
    \E k \in 1..(Len(steps) - 1) :
        /\ IsTextStopPush(steps[k])
        /\ IsRegister(steps[k + 1])
        /\ ~state.textBlockStarted
        /\ \E j \in 1..Len(written) : written[j] = steps[k].event

(* C6: n >= 1 chunks each carrying only a non-empty text delta, then one   *)
(* chunk carrying only finish=stop, give exactly content_block_start(0,    *)
(* text, ""), one text_delta of index 0 per chunk with that chunk's text,  *)
(* content_block_stop(0), message_delta(end_turn), message_stop.           *)
IsTextOnly(chunk) ==
    /\ chunk.hasChoice /\ chunk.content # EmptyStr
    /\ ~chunk.hasToolCalls /\ chunk.finish_reason = ""

IsFinishOnly(chunk, reason) ==
    /\ chunk.hasChoice /\ chunk.content = EmptyStr
    /\ ~chunk.hasToolCalls /\ chunk.finish_reason = reason

TextThenStop ==
    /\ Len(chunks) >= 2
    /\ \A k \in 1..(Len(chunks) - 1) : IsTextOnly(chunks[k])
    /\ IsFinishOnly(LastChunk, "stop")

\* C6: text-only chunks then finish=stop give exactly the claimed event sequence
C6_TextSequence ==
    TextThenStop =>
        LET n == Len(chunks) - 1
            ev == Emitted
        IN  /\ Len(ev) = n + 4
            /\ ev[1] = TextStart(0)
            /\ \A k \in 1..n : ev[k + 1] = TextDelta(0, chunks[k].content)
            /\ ev[n + 2] = BlockStop(0)
            /\ ev[n + 3].type = "message_delta"
            /\ ev[n + 3].delta.stop_reason = "end_turn"
            /\ ev[n + 4] = MessageStop

\* two different text deltas and the finish chunk have been translated
C6_Witness ==
    /\ TextThenStop
    /\ Len(chunks) >= 3
    /\ chunks[1].content # chunks[2].content
    /\ Len(Emitted) = Len(chunks) + 3

(* C7: [position 0 with id X, name f, empty arguments], then k >= 1 chunks *)
(* each with a non-empty argument fragment for position 0, then            *)
(* finish=tool_calls, give exactly content_block_start(0, tool_use, X, f,  *)
(* {}), one input_json_delta of index 0 per fragment, in order,            *)
(* content_block_stop(0), message_delta(tool_use), message_stop; and the   *)
(* finalized unit's input is the parse of the concatenated fragments.      *)
IsToolOpening(chunk) ==
    /\ chunk.hasChoice /\ chunk.content = EmptyStr /\ chunk.finish_reason = ""
    /\ chunk.hasToolCalls /\ Len(chunk.tool_calls) = 1
    /\ chunk.tool_calls[1].index = 0
    /\ chunk.tool_calls[1].id # "" /\ chunk.tool_calls[1].name # ""
    /\ chunk.tool_calls[1].arguments = EmptyStr

IsFragmentOnly(chunk) ==
    /\ chunk.hasChoice /\ chunk.content = EmptyStr /\ chunk.finish_reason = ""
    /\ chunk.hasToolCalls /\ Len(chunk.tool_calls) = 1
    /\ chunk.tool_calls[1].index = 0
    /\ chunk.tool_calls[1].id = "" /\ chunk.tool_calls[1].name = ""
    /\ chunk.tool_calls[1].arguments # EmptyStr

ToolThenFinish ==
    /\ Len(chunks) >= 3
    /\ IsToolOpening(chunks[1])
    /\ \A k \in 2..(Len(chunks) - 1) : IsFragmentOnly(chunks[k])
    /\ IsFinishOnly(LastChunk, "tool_calls")

RECURSIVE Fragments(_)
\* the argument fragments of chunks 2..k, concatenated
Fragments(k) ==
    IF k < 2 THEN EmptyStr ELSE Fragments(k - 1) \o chunks[k].tool_calls[1].arguments

ToolSequenceAsClaimed ==
    LET k == Len(chunks) - 2
        call == chunks[1].tool_calls[1]
        ev == Emitted
    IN  /\ Len(ev) = k + 4
        /\ ev[1] = ToolStart(0, call.id, call.name)
        /\ \A i \in 1..k : ev[i + 1] = JsonDelta(0, chunks[i + 1].tool_calls[1].arguments)
        /\ ev[k + 2] = BlockStop(0)
        /\ ev[k + 3].type = "message_delta"
        /\ ev[k + 3].delta.stop_reason = "tool_use"
        /\ ev[k + 4] = MessageStop
        /\ state.contentBlocks =
              <<[type |-> "tool_use", id |-> call.id, name |-> call.name,
                 input |-> JsonParse(Fragments(Len(chunks) - 1)).value]>>

\* C7: a tool call, its argument fragments, then finish=tool_calls give exactly the
\* claimed event sequence and finalized input
C7_ToolSequence == ToolThenFinish => ToolSequenceAsClaimed

\* what does hold: the sequence is as claimed whenever the fragments concatenate
\* to a JSON text
ToolSequenceOfParsableArguments ==
    (ToolThenFinish /\ JsonParse(Fragments(Len(chunks) - 1)).ok) => ToolSequenceAsClaimed

(* C8: when a finish chunk is processed, a started tool unit whose         *)
(* argument buffer is empty or not parsable is finalized with input {}:    *)
(* no error is raised and the chunk still yields the unit's                *)
(* content_block_stop, then message_delta and message_stop.                *)
EmptyOrUnparsable(ts) ==
    ts.startEventSent /\ (ts.argumentsBuffer = EmptyStr \/ ~JsonParse(ts.argumentsBuffer).ok)

\* C8: at finish, empty or unparsable arguments are finalized as {} without an error
C8_UnparsableArgumentsGiveEmptyInput ==
    (/\ OnlyLastFinishes
     /\ \E p \in 1..Len(state.toolCallStates) : EmptyOrUnparsable(state.toolCallStates[p])) =>
        LET ev == Emitted
        IN  /\ ~threw
            /\ Len(ev) >= 3
            /\ ev[Len(ev)] = MessageStop
            /\ ev[Len(ev) - 1].type = "message_delta"
            /\ \A p \in 1..Len(state.toolCallStates) :
                  EmptyOrUnparsable(state.toolCallStates[p]) =>
                      /\ \E k \in 1..(Len(ev) - 2) : IsStop(ev[k])
                      /\ \E b \in 1..Len(state.contentBlocks) :
                            state.contentBlocks[b] =
                                [type |-> "tool_use",
                                 id |-> state.toolCallStates[p].id,
                                 name |-> state.toolCallStates[p].name,
                                 input |-> EmptyObject]

\* what does hold: an empty buffer is finalized with input {} (the unparsable
\* one throws)
EmptyArgumentsGiveEmptyInput ==
    (/\ OnlyLastFinishes
     /\ \A p \in 1..Len(state.toolCallStates) :
           state.toolCallStates[p].argumentsBuffer = EmptyStr) =>
        /\ ~threw
        /\ \A p \in 1..Len(state.toolCallStates) :
              state.toolCallStates[p].startEventSent =>
                  \E b \in 1..Len(state.contentBlocks) :
                      state.contentBlocks[b] =
                          [type |-> "tool_use",
                           id |-> state.toolCallStates[p].id,
                           name |-> state.toolCallStates[p].name,
                           input |-> EmptyObject]

(* C9: the message_delta of a finish chunk carries stop_reason tool_use if *)
(* any tool call was registered during the reply; otherwise stop ->        *)
(* end_turn, length -> max_tokens, tool_calls -> tool_use, content_filter  *)
(* -> end_turn, and end_turn for any other finish reason; never null.      *)
ToolCallRegistered == \E k \in 1..Len(steps) : IsRegister(steps[k])

ClaimedStopReason(finishReason) ==
    IF ToolCallRegistered THEN "tool_use"
    ELSE IF finishReason = "stop" THEN "end_turn"
    ELSE IF finishReason = "length" THEN "max_tokens"
    ELSE IF finishReason = "tool_calls" THEN "tool_use"
    ELSE "end_turn"

\* C9: the stop_reason of the message_delta is the claimed one, and never null
C9_StopReason ==
    /\ \A k \in 1..Len(written) :
          written[k].type = "message_delta" =>
              written[k].delta.stop_reason \in {"end_turn", "max_tokens", "tool_use"}
    /\ (Len(chunks) >= 1 /\ HasFinish(LastChunk) /\ ~threw) =>
          LET ev == Emitted
          IN  /\ Len(ev) >= 2
              /\ ev[Len(ev) - 1].type = "message_delta"
              /\ ev[Len(ev) - 1].delta.stop_reason = ClaimedStopReason(LastChunk.finish_reason)

\* a finish=stop chunk after a tool call was registered: tool_use, not end_turn
C9_Witness ==
    /\ Len(chunks) >= 2
    /\ IsFinishOnly(LastChunk, "stop")
    /\ ToolCallRegistered
    /\ ~threw
    /\ Emitted[Len(Emitted) - 1].type = "message_delta"
    /\ Emitted[Len(Emitted) - 1].delta.stop_reason = "tool_use"

(* C10: the events written for a streaming request are message_start,      *)
(* then ping (both before any chunk is processed, each exactly once), then *)
(* only content_block_start/delta/stop events, then message_delta, then    *)
(* message_stop.  (An error event ending the sequence is let through.)     *)
Rank(e) ==
    CASE e.type = "message_start" -> 0
      [] e.type = "ping" -> 1
      [] e.type \in {"content_block_start", "content_block_delta", "content_block_stop"} -> 2
      [] e.type = "message_delta" -> 3
      [] e.type = "message_stop" -> 4
      [] OTHER -> 5

\* C10: message_start, ping, content_block_* events, message_delta, message_stop, in
\* that order
C10_EventOrder ==
    /\ chunks # << >> => Len(written) >= 2
    /\ Len(written) >= 1 => written[1].type = "message_start"
    /\ Len(written) >= 2 => written[2].type = "ping"
    /\ \A i \in 1..Len(written) : \A j \in (i + 1)..Len(written) :
          /\ Rank(written[i]) <= Rank(written[j])
          /\ Rank(written[i]) # 2 => Rank(written[i]) < Rank(written[j])

\* what does hold: message_start and ping open the stream, once each, before any
\* chunk is processed
InitialEventsFirst ==
    /\ chunks # << >> => Len(written) >= 2
    /\ Len(written) >= 1 => written[1].type = "message_start"
    /\ Len(written) >= 2 => written[2].type = "ping"
    /\ \A i \in 3..Len(written) : written[i].type \notin {"message_start", "ping"}

----------------------------------------------------------------------------
(* C11: a failing provider stream                                          *)

IsError(e) == e.type = "error"

\* the streamed reply of the current request failed: the provider call threw or
\* translateStreamChunk did
StreamFailed == pc = "ended" /\ response = EventStream /\ failure # ""

\* exactly one error event, written last, after the initial events
OneErrorEventLast ==
    /\ Len(SelectSeq(written, IsError)) = 1
    /\ written[Len(written)] = ErrorEvent
    /\ Len(written) >= 3
    /\ written[1].type = "message_start"

\* the step at which the stream fails appends the error event to what was written
\* and ends the response
FailureStep ==
    (pc = "streaming" /\ failure = "" /\ failure' # "")
        => /\ written' = Append(written, ErrorEvent)
           /\ pc' = "ended"

\* the server takes the next request
KeepsServing == Len(outcomes) + 1 < MaxRequests => ENABLED ReceiveRequest

\* C11: when the provider stream fails (non-2xx status, missing body, failing read,
\* or a throw of translateStreamChunk) exactly one error event is written, after the
\* events written before and as the last event, the response is ended, and the
\* server goes on to handle other requests.
C11_StreamFailureEndsWithOneError ==
    /\ [](StreamFailed => OneErrorEventLast /\ KeepsServing)
    /\ [](\A i \in 1..Len(written) : IsError(written[i]) => i = Len(written) /\ pc = "ended")
    /\ [][FailureStep]_vars

\* a request is answered normally after the stream of the request before it failed
\* in translateStreamChunk, past the first chunk
C11_Witness ==
    /\ Len(outcomes) = 1
    /\ outcomes[1] = [status |-> 200, failure |-> "translate"]
    /\ pc = "ended"
    /\ failure = ""
    /\ response.status = 200
    /\ Len(response.body.content) = 1

----------------------------------------------------------------------------
(* C12: validation of the required fields                                  *)

\* the first required field the request fails on, in the order model, max_tokens,
\* messages; "" if it fails on none (a max_tokens of 0 counts as lacking)
FirstFailingField(req) ==
    IF req.model = "" THEN "model"
    ELSE IF req.max_tokens \in {None, Some(0)} THEN "max_tokens"
    ELSE IF req.messages \in {None, Some(<< >>)} THEN "messages"
    ELSE ""

\* the message that names a field
FieldMessage(field) ==
    CASE field = "model" -> "model is required"
      [] field = "max_tokens" -> "max_tokens is required"
      [] field = "messages" -> "messages is required and must not be empty"

\* C12: a request lacking model, max_tokens or a non-empty messages list is answered
\* 400 invalid_request_error naming the first failing field, and neither
\* translateRequest nor a provider call is made for it.
C12_InvalidRequestRejected ==
    (pc # "idle" /\ FirstFailingField(anthropicRequest) # "")
        => /\ pc = "ended"
           /\ response.status = 400
           /\ response.body.type = "error"
           /\ response.body.error.type = "invalid_request_error"
           /\ response.body.error.message = FieldMessage(FirstFailingField(anthropicRequest))
           /\ called = << >>
           /\ cerebrasRequest = NoCerebrasRequest
           /\ cerebrasResponse = NoReply
           /\ written = << >>

\* a request with a model, without max_tokens and with an empty messages list was
\* answered: the reply names max_tokens
C12_Witness ==
    /\ pc = "ended"
    /\ anthropicRequest.model = "claude-x"
    /\ anthropicRequest.max_tokens = None
    /\ anthropicRequest.messages = Some(<< >>)
    /\ response.status = 400
    /\ response.body.error.message = "max_tokens is required"

----------------------------------------------------------------------------
(* C13 .. C16: translateResponse behind the non-streaming handler          *)

\* the provider replied to createCompletion and the reply was handled
Replied == pc = "ended" /\ cerebrasResponse # NoReply

JsonTexts == {<<"{", "}">>, <<"1">>}

\* the tool calls of the first choice of the reply
ReplyToolCalls ==
    IF IsSome(cerebrasResponse.choices[1].message.tool_calls)
    THEN Get(cerebrasResponse.choices[1].message.tool_calls)
    ELSE << >>

ReplyText == cerebrasResponse.choices[1].message.content

AllArgumentsParse ==
    \A i \in 1..Len(ReplyToolCalls) : ReplyToolCalls[i].function.arguments \in JsonTexts

\* content[i] is the tool_use unit of the k-th tool call of the reply
IsUnitOfCall(content, i, k) ==
    /\ content[i].type = "tool_use"
    /\ content[i].id = ReplyToolCalls[k].id
    /\ content[i].name = ReplyToolCalls[k].function.name

\* C13: for a reply with a choice and parsable tool arguments the content list is
\* non-empty: the text unit first iff the message text is non-empty, then one
\* tool_use unit per tool call in order; a single empty text unit if there is
\* neither.
C13_ContentUnits ==
    (Replied /\ Len(cerebrasResponse.choices) >= 1 /\ AllArgumentsParse)
        => /\ response.status = 200
           /\ LET content == response.body.content
                  n == Len(ReplyToolCalls)
              IN  /\ Len(content) >= 1
                  /\ IF ReplyText # EmptyStr
                     THEN /\ content[1] = TextBlock(ReplyText)
                          /\ Len(content) = 1 + n
                          /\ \A k \in 1..n : IsUnitOfCall(content, k + 1, k)
                     ELSE IF n > 0
                     THEN /\ Len(content) = n
                          /\ \A k \in 1..n : IsUnitOfCall(content, k, k)
                     ELSE content = <<TextBlock(EmptyStr)>>

\* a reply with text and two tool calls was translated into three units
C13_Witness ==
    /\ Replied
    /\ Len(cerebrasResponse.choices) = 1
    /\ ReplyText = <<"a">>
    /\ Len(ReplyToolCalls) = 2
    /\ AllArgumentsParse
    /\ response.status = 200
    /\ Len(response.body.content) = 3

\* C14: a reply without choices makes translateResponse throw "No choices in Cerebras
\* response"; nothing of a message is sent and the server answers with a 5xx error.
C14_NoChoiceIsServerError ==
    (Replied /\ Len(cerebrasResponse.choices) = 0)
        => response = ErrorResponse(500, "api_error", "No choices in Cerebras response")

C14_Witness ==
    /\ Replied
    /\ cerebrasResponse.choices = << >>
    /\ response.status = 500

\* the stop reason the table gives
TableStopReason(finishReason, toolCallCount) ==
    IF toolCallCount >= 1 THEN "tool_use"
    ELSE CASE finishReason = "stop" -> "end_turn"
           [] finishReason = "length" -> "max_tokens"
           [] finishReason = "tool_calls" -> "tool_use"
           [] finishReason = "content_filter" -> "end_turn"
           [] OTHER -> "null"

\* C15: the stop reason of a non-streaming reply follows the table, for every finish
\* reason: tool_use when the message has a tool call, otherwise by the finish reason,
\* null for an absent or unknown one.
C15_NonStreamingStopReason ==
    (Replied /\ Len(cerebrasResponse.choices) >= 1 /\ AllArgumentsParse)
        => /\ response.status = 200
           /\ response.body.stop_reason =
                 TableStopReason(cerebrasResponse.choices[1].finish_reason,
                                 Len(ReplyToolCalls))

\* a reply that finished with "length" and has a tool call got tool_use
C15_Witness ==
    /\ Replied
    /\ Len(cerebrasResponse.choices) = 1
    /\ cerebrasResponse.choices[1].finish_reason = "length"
    /\ Len(ReplyToolCalls) = 1
    /\ response.status = 200
    /\ response.body.stop_reason = "tool_use"

\* C16: a reply with a tool call whose arguments are not JSON makes translateResponse
\* throw: no message is returned (the server answers with an error), and no default
\* input replaces the arguments.
C16_UnparsableArgumentsFail ==
    (Replied /\ Len(cerebrasResponse.choices) >= 1 /\ ~AllArgumentsParse)
        => /\ response.status = 500
           /\ response.body.type = "error"
           /\ response.body.error.type = "api_error"

\* the second of two tool calls has arguments that do not parse
C16_Witness ==
    /\ Replied
    /\ Len(cerebrasResponse.choices) = 1
    /\ Len(ReplyToolCalls) = 2
    /\ ReplyToolCalls[1].function.arguments = <<"{", "}">>
    /\ ReplyToolCalls[2].function.arguments = <<"{">>
    /\ response.status = 500

----------------------------------------------------------------------------
(* C18 .. C20: translateRequest                                            *)

Translated == pc = "translated"

\* the provider tool choice the mapping gives for a policy
MappedChoice(policy) ==
    IF policy = None THEN ChoiceMode("auto")
    ELSE CASE Get(policy).type = "tool" -> ForcedFunction(Get(policy).name)
           [] Get(policy).type = "none" -> ChoiceMode("none")
           [] Get(policy).type = "any" -> ChoiceMode("required")
           [] Get(policy).type = "auto" -> ChoiceMode("auto")

DeclaredTools ==
    IF IsSome(anthropicRequest.tools) THEN Len(Get(anthropicRequest.tools)) ELSE 0

\* C18 (as stated): the provider request carries the mapped tool choice whatever
\* tools are declared: forced function Z for "tool Z", none for "none", required
\* for "any", auto for "auto" and for an absent policy.
C18_ToolChoiceMapping ==
    Translated => cerebrasRequest.tool_choice = Some(MappedChoice(anthropicRequest.tool_choice))

\* C18 (amended): the provider request carries the mapped tool choice when at least
\* one tool is declared, and no tool choice at all when none is.
C18_ToolChoiceMappingWithTools ==
    Translated =>
        IF DeclaredTools >= 1
        THEN cerebrasRequest.tool_choice = Some(MappedChoice(anthropicRequest.tool_choice))
        ELSE cerebrasRequest.tool_choice = None

\* with a tool declared, the policy "none" was mapped to none
C18_Witness ==
    /\ Translated
    /\ DeclaredTools = 1
    /\ anthropicRequest.tool_choice = Some(ToolChoice("none", "", None))
    /\ cerebrasRequest.tool_choice = Some(ChoiceMode("none"))

\* C19: parallel_tool_calls is in the provider request iff at least one tool is
\* declared; it is then the negation of the policy's disable_parallel_tool_use, and
\* true when the policy or the flag is absent.
C19_ParallelToolCalls ==
    Translated =>
        /\ IsSome(cerebrasRequest.parallel_tool_calls) <=> DeclaredTools >= 1
        /\ IsSome(cerebrasRequest.parallel_tool_calls) =>
              Get(cerebrasRequest.parallel_tool_calls) =
                 IF anthropicRequest.tool_choice = None THEN TRUE
                 ELSE IF Get(anthropicRequest.tool_choice).disable_parallel_tool_use = None
                 THEN TRUE
                 ELSE ~Get(Get(anthropicRequest.tool_choice).disable_parallel_tool_use)

\* two tools declared and "any" with the flag set: parallel_tool_calls is false
C19_Witness ==
    /\ Translated
    /\ DeclaredTools = 2
    /\ anthropicRequest.tool_choice = Some(ToolChoice("any", "", Some(TRUE)))
    /\ cerebrasRequest.parallel_tool_calls = Some(FALSE)

IsToolRoleMessage(m) == m.role = "tool"

\* the tool_result blocks of the user messages with block content, in order
RECURSIVE ToolResultsOf(_)
ToolResultsOf(messages) ==
    IF Len(messages) = 0 THEN << >>
    ELSE (IF Head(messages).role = "user" /\ Head(messages).content.kind = "blocks"
          THEN SelectSeq(Head(messages).content.blocks, IsToolResultBlock)
          ELSE << >>)
         \o ToolResultsOf(Tail(messages))

\* the result string of a tool_result block, or its text blocks joined by newline
ResultString(block) ==
    IF block.content.kind = "string" THEN block.content.text
    ELSE Join(Texts(SelectSeq(block.content.blocks, IsTextBlock)), NewLine)

\* C20: the tool-role messages of the provider request are, in order, one per
\* tool_result block of the user messages: tool_call_id is the block's tool_use_id,
\* content the result string (or its text blocks joined by newline), prefixed with
\* "Error: " exactly when is_error is set.
C20_ToolResultMessages ==
    Translated =>
        LET results == ToolResultsOf(Get(anthropicRequest.messages))
            toolMessages == SelectSeq(cerebrasRequest.messages, IsToolRoleMessage)
        IN  /\ Len(toolMessages) = Len(results)
            /\ \A i \in 1..Len(results) :
                  /\ toolMessages[i].tool_call_id = results[i].tool_use_id
                  /\ toolMessages[i].content =
                        IF results[i].is_error = Some(TRUE)
                        THEN <<"E", "r", "r", "o", "r", ":", " ">> \o ResultString(results[i])
                        ELSE ResultString(results[i])

\* two tool results in one user message, the first an error with block content
C20_Witness ==
    /\ Translated
    /\ Len(Get(anthropicRequest.messages)) = 1
    /\ LET results == ToolResultsOf(Get(anthropicRequest.messages))
       IN  /\ Len(results) = 2
           /\ results[1].tool_use_id = "toolu_2"
           /\ results[1].is_error = Some(TRUE)
           /\ results[1].content.kind = "blocks"
           /\ Len(results[1].content.blocks) = 3
           /\ results[2].tool_use_id = "toolu_1"
           /\ results[2].is_error = None
    /\ Len(cerebrasRequest.messages) = 2
    /\ cerebrasRequest.messages[1].content = <<"E", "r", "r", "o", "r", ":", " ", "a", "\n", "b">>

----------------------------------------------------------------------------
(* C21, C22: user content and optional parameters in translateRequest      *)

IsUserRoleMessage(m) == m.role = "user"

\* the request has one message, a user message with block content
OneUserBlockMessage ==
    /\ Len(Get(anthropicRequest.messages)) = 1
    /\ Get(anthropicRequest.messages)[1].role = "user"
    /\ Get(anthropicRequest.messages)[1].content.kind = "blocks"

\* an image block that carries inline data with a media type, or a URL
UsableImage(block) ==
    \/ block.source.type = "base64" /\ block.source.data # "" /\ block.source.media_type # ""
    \/ block.source.type = "url" /\ block.source.url # ""

\* the text and image parts that remain of a list of blocks, in block order, by
\* their kind and payload
RECURSIVE RemainingParts(_)
RemainingParts(blocks) ==
    IF Len(blocks) = 0 THEN << >>
    ELSE (IF Head(blocks).type = "text"
          THEN <<[kind |-> "text", text |-> Head(blocks).text]>>
          ELSE IF Head(blocks).type = "image" /\ UsableImage(Head(blocks))
          THEN <<[kind |-> "image", source |-> Head(blocks).source]>>
          ELSE << >>)
         \o RemainingParts(Tail(blocks))

\* a part of the provider message is the remaining part r
PartIs(part, r) ==
    IF r.kind = "text"
    THEN part.type = "text" /\ part.text = r.text
    ELSE /\ part.type = "image_url"
         /\ part.image_url.url = IF r.source.type = "url" THEN r.source.url
                                 ELSE "data:image/png;base64," \o r.source.data

\* C21: the blocks of a user message other than tool_result become at most one
\* user message: a bare string when exactly one text part remains, otherwise the
\* list of the text and image parts in block order; an image without data and
\* without URL is dropped, and no user message is emitted when no part remains.
C21_UserContentMerged ==
    (Translated /\ OneUserBlockMessage) =>
        LET remaining == RemainingParts(Get(anthropicRequest.messages)[1].content.blocks)
            userMessages == SelectSeq(cerebrasRequest.messages, IsUserRoleMessage)
        IN  IF Len(remaining) = 0 THEN userMessages = << >>
            ELSE /\ Len(userMessages) = 1
                 /\ IF Len(remaining) = 1 /\ remaining[1].kind = "text"
                    THEN userMessages[1].content = StringContent(remaining[1].text)
                    ELSE /\ userMessages[1].content.kind = "parts"
                         /\ Len(userMessages[1].content.parts) = Len(remaining)
                         /\ \A i \in 1..Len(remaining) :
                               PartIs(userMessages[1].content.parts[i], remaining[i])

\* a text block and an image without source: the image is dropped and the text is
\* sent as a bare string
C21_Witness ==
    /\ Translated
    /\ OneUserBlockMessage
    /\ Get(anthropicRequest.messages)[1].content.blocks
          = <<ImageBlock("url", "", "", ""), TextBlock(<<"b">>)>>
    /\ cerebrasRequest.messages = <<[role |-> "user", content |-> StringContent(<<"b">>)]>>

\* C22: max_completion_tokens, temperature, top_p and stop carry the client's value
\* exactly when the client supplied one (a 0 is kept) and are absent otherwise;
\* stream is always there, false when the client omitted it.
C22_OptionalParameters ==
    Translated =>
        /\ cerebrasRequest.max_completion_tokens = anthropicRequest.max_tokens
        /\ cerebrasRequest.temperature = anthropicRequest.temperature
        /\ cerebrasRequest.top_p = anthropicRequest.top_p
        /\ cerebrasRequest.stop = anthropicRequest.stop_sequences
        /\ cerebrasRequest.stream \in BOOLEAN
        /\ cerebrasRequest.stream = (anthropicRequest.stream = Some(TRUE))

\* a temperature and top_p of 0 and an empty stop list were supplied and kept
C22_Witness ==
    /\ Translated
    /\ anthropicRequest.temperature = Some(0)
    /\ anthropicRequest.stop_sequences = Some(<< >>)
    /\ anthropicRequest.stream = None
    /\ cerebrasRequest.temperature = Some(0)
    /\ cerebrasRequest.top_p = Some(0)
    /\ cerebrasRequest.stop = Some(<< >>)
    /\ cerebrasRequest.stream = FALSE

\* ---------------------------------------------------------------------------
\* C23: the model names of the provider request and of the client reply
\* ---------------------------------------------------------------------------

ClientModel == anthropicRequest.model

\* C23: every provider request names the configured model, whatever model name the
\* client sent, and the client reply (the body of a non-streaming reply, the
\* message of a streaming message_start) names the model the client sent.
C23_ModelNames ==
    /\ cerebrasRequest # NoCerebrasRequest => cerebrasRequest.model = CEREBRAS_MODEL
    /\ (Replied /\ response.status = 200) => response.body.model = ClientModel
    /\ written # << >> =>
           /\ written[1].type = "message_start"
           /\ written[1].message.model = ClientModel

\* a request for the second model name has been answered without streaming, and the
\* provider's reply named the provider's model
C23_Witness ==
    /\ ClientModel = "claude-y"
    /\ Replied
    /\ response.status = 200
    /\ cerebrasResponse.model = CEREBRAS_MODEL
    /\ response.body.model = "claude-y"
    /\ cerebrasRequest.model = CEREBRAS_MODEL
----------------------------------------------------------------------------
(* The schema cleaner of translateTool over schema trees                   *)

\* schemas without a nested schema: no keyword, a string with an unsupported keyword,
\* a bare object type, an open object type with a title, an object type whose
\* "properties" is falsy
LeafSchemas ==
    {JObject(<< >>),
     JObject(<<Member("type", JString("string")), Member("format", JString("date"))>>),
     JObject(<<Member("type", JString("object"))>>),
     JObject(<<Member("additionalProperties", JBoolean(TRUE)),
               Member("type", JString("object")),
               Member("title", JString("t"))>>),
     JObject(<<Member("type", JString("object")), Member("properties", JBoolean(FALSE))>>)}

\* the schemas that hold the schema s one level down: as a property (one of them
\* named like an unsupported keyword), as the items of an array (an object, or a
\* list of schemas), as an alternative of anyOf / oneOf / allOf, under a key the
\* cleaner does not know, under an unsupported keyword, and inside an array under a
\* key the cleaner does not know
NestedSchemas(s) ==
    {JObject(<<Member("type", JString("object")),
               Member("properties", JObject(<<Member("p", s), Member("title", s)>>))>>),
     JObject(<<Member("type", JString("array")), Member("items", s),
               Member("uniqueItems", JBoolean(TRUE))>>),
     JObject(<<Member("type", JString("array")), Member("items", JArray(<<s>>))>>),
     JObject(<<Member("anyOf", JArray(<<s, JBoolean(TRUE)>>)),
               Member("type", JString("object"))>>),
     JObject(<<Member("oneOf", JArray(<<s>>))>>),
     JObject(<<Member("allOf", JArray(<<s>>)), Member("type", JString("object"))>>),
     JObject(<<Member("type", JString("object")), Member("not", s)>>),
     JObject(<<Member("type", JString("object")), Member("default", s)>>),
     JObject(<<Member("enum", JArray(<<s>>))>>)}

RECURSIVE SchemaTrees(_)

\* the schema trees of nesting depth up to d
SchemaTrees(d) ==
    IF d = 0 THEN LeafSchemas
    ELSE SchemaTrees(d - 1) \cup UNION {NestedSchemas(s) : s \in SchemaTrees(d - 1)}

\* tools whose one property has a schema tree, and the tools without parameters:
\* no input_schema, no properties, an empty properties map
SchemaTools ==
    {Tool("g", None, Some(InputSchema(Some(JObject(<<Member("q", s)>>)), required))) :
        s \in SchemaTrees(MaxSchemaDepth),
        required \in {None, Some(JArray(<<JString("q")>>))}}
    \cup {Tool("f", None, None),
          Tool("f", None, Some(InputSchema(None, None))),
          Tool("f", None, Some(InputSchema(Some(JObject(<< >>)), None)))}

SchemaRequests ==
    {MessagesRequest("claude-x", Some(100), Some(<<HelloMessage>>), None, None, None, None,
                     None, Some(<<t>>), None) : t \in SchemaTools}

\* the parameters of the one tool of the provider request
Parameters == Get(cerebrasRequest.tools)[1].function.parameters

InitSchema ==
    /\ pc = "received"
    /\ anthropicRequest \in SchemaRequests
    /\ state = NoStreamState
    /\ chunks = << >>
    /\ written = << >>
    /\ steps = << >>
    /\ threw = FALSE
    /\ failure = ""
    /\ cerebrasRequest = NoCerebrasRequest
    /\ cerebrasResponse = NoReply
    /\ response = NoResponse
    /\ called = << >>
    /\ outcomes = << >>
    /\ OtherInit

\* cleanSchema applied to what it returned the time before
CleanSchema ==
    /\ pc = "translated"
    /\ Len(cleaned) < MaxCleanings
    /\ cleaned' = Append(cleaned, cleanSchema(IF cleaned = << >> THEN Parameters
                                              ELSE cleaned[Len(cleaned)]))
    /\ UNCHANGED <<pc, state, chunks, written, steps, threw, failure, anthropicRequest,
                   cerebrasRequest, cerebrasResponse, response, called, outcomes,
                   received, buffer, pending, connected, handlers>>

NextSchema == TranslateRequest \/ CleanSchema

SpecSchema == InitSchema /\ [][NextSchema]_vars

\* ---------------------------------------------------------------------------
\* C24, C25: the schema cleaner of translateTool
\* ---------------------------------------------------------------------------

\* the tool of the request has parameters of its own, which cleanSchema cleaned
DeclaresProperties ==
    LET tool == Get(anthropicRequest.tools)[1]
    IN  /\ IsSome(tool.input_schema)
        /\ IsSome(Get(tool.input_schema).properties)
        /\ Len(Entries(Get(Get(tool.input_schema).properties))) > 0

\* C24: the schema cleaner is idempotent: cleaning the cleaned parameters of a tool
\* again, any number of times, gives the cleaned parameters back.
C24_CleanSchemaIdempotent ==
    pc = "translated" => \A i \in 1..Len(cleaned) : cleaned[i] = Parameters

\* a schema with an open object type and unsupported keywords two levels down has
\* been cleaned, and its result cleaned again
C24_Witness ==
    /\ pc = "translated"
    /\ DeclaresProperties
    /\ Len(cleaned) >= 1
    /\ Parameters # Get(Get(Get(anthropicRequest.tools)[1].input_schema).properties)
    /\ \E s \in LeafSchemas :
         /\ HasKey(s.members, "title")
         /\ Lookup(Get(Get(Get(anthropicRequest.tools)[1].input_schema).properties).members,
                   "q") \in NestedSchemas(s)

SchemaKeywords == {"properties", "anyOf", "oneOf", "allOf"}

RECURSIVE SchemaNodeOk(_)

\* the schema object v, and every schema object below it that is reached through
\* properties, items, anyOf, oneOf, allOf or a nested object under another key,
\* has no unsupported keyword and, when its type is "object", has
\* additionalProperties false and one of properties / anyOf / oneOf / allOf
SchemaNodeOk(v) ==
    LET m == v.members
    IN  /\ \A i \in 1..Len(m) : m[i].key \notin UNSUPPORTED_SCHEMA_FIELDS
        /\ Lookup(m, "type") = JString("object") =>
              /\ Lookup(m, "additionalProperties") = JBoolean(FALSE)
              /\ \E k \in SchemaKeywords : HasKey(m, k)
        /\ \A i \in 1..Len(m) :
              IF m[i].key = "properties" /\ m[i].value.json = "object"
              THEN \A j \in 1..Len(m[i].value.members) :
                      m[i].value.members[j].value.json = "object" =>
                          SchemaNodeOk(m[i].value.members[j].value)
              ELSE IF m[i].key \in {"anyOf", "oneOf", "allOf"} /\ m[i].value.json = "array"
              THEN \A j \in 1..Len(m[i].value.items) :
                      m[i].value.items[j].json = "object" =>
                          SchemaNodeOk(m[i].value.items[j])
              ELSE m[i].value.json = "object" => SchemaNodeOk(m[i].value)

\* C25: in the parameters of a translated tool every schema object of type "object",
\* at the root and at every node below it, has additionalProperties false and
\* declares properties, anyOf, oneOf or allOf, and no unsupported keyword is left
\* at any node; a tool without parameters or with an empty properties map gets
\* {type: object, properties: {}, additionalProperties: false}.
C25_ObjectSchemasClosed ==
    pc = "translated" =>
        /\ Parameters.json = "object"
        /\ Lookup(Parameters.members, "type") = JString("object")
        /\ SchemaNodeOk(Parameters)
        /\ ~DeclaresProperties => Parameters = EmptyParameters

\* parameters with an object type under "items" that came open and with a title
C25_Witness ==
    /\ pc = "translated"
    /\ DeclaresProperties
    /\ \E s \in LeafSchemas :
         /\ HasKey(s.members, "title")
         /\ JObject(<<Member("type", JString("array")), Member("items", s),
                      Member("uniqueItems", JBoolean(TRUE))>>)
               = Lookup(Get(Get(Get(anthropicRequest.tools)[1].input_schema).properties).members,
                        "q")
    /\ Lookup(Lookup(Lookup(Lookup(Parameters.members, "properties").members,
                            "q").members, "items").members,
              "additionalProperties") = JBoolean(FALSE)
----------------------------------------------------------------------------
(* createCompletionStream: the lines of the provider's event stream        *)

\* Texts of the provider stream are sequences of pieces: the field name "data:", a
\* space, a line break, a carriage return, a colon (which starts a comment line), the
\* sentinel "[DONE]", the characters "{" and "}", and the JSON text of a chunk, whole
\* or cut in two. A read of the body ends between two pieces.
TextChunkHead == "{\"choices\":[{\"delta\":"
TextChunkTail == "{\"content\":\"a\"}}]}"
FinishChunkText == "{\"choices\":[{\"delta\":{},\"finish_reason\":\"stop\"}]}"

TextChunkText == <<TextChunkHead, TextChunkTail>>

WhiteSpace == {" ", "\r", "\n"}

RECURSIVE TrimStart(_)
TrimStart(text) ==
    IF text # << >> /\ Head(text) \in WhiteSpace THEN TrimStart(Tail(text)) ELSE text

RECURSIVE TrimEnd(_)
TrimEnd(text) ==
    IF text # << >> /\ text[Len(text)] \in WhiteSpace
    THEN TrimEnd(SubSeq(text, 1, Len(text) - 1))
    ELSE text

\* line.trim()
Trim(text) == TrimEnd(TrimStart(text))

RECURSIVE Split(_)

\* buffer.split("\n"): the pieces between the line breaks, at least one
Split(text) ==
    IF text = << >> THEN <<EmptyStr>>
    ELSE LET rest == Split(Tail(text))
         IN  IF Head(text) = "\n" THEN <<EmptyStr>> \o rest
             ELSE <<(<<Head(text)>> \o rest[1])>> \o Tail(rest)

\* trimmed.startsWith("data: ")
StartsWithData(trimmed) == Len(trimmed) >= 2 /\ trimmed[1] = "data:" /\ trimmed[2] = " "

\* trimmed.slice(6)
Slice6(trimmed) == SubSeq(trimmed, 3, Len(trimmed))

\* JSON.parse(data) on the texts of the stream: the two chunk texts give their
\* chunks, "{}" and the digit sequences give an object without choices and a
\* number, white space around the text is ignored, anything else is a SyntaxError
JsonParseChunk(data) ==
    IF Trim(data) = TextChunkText
    THEN [ok |-> TRUE, value |-> Chunk(<<"a">>, FALSE, << >>, "")]
    ELSE IF Trim(data) = <<FinishChunkText>>
    THEN [ok |-> TRUE, value |-> Chunk(EmptyStr, FALSE, << >>, "stop")]
    ELSE JsonParse(Trim(data))

\* a line handler that takes the sentinel for one more payload
HandleLine_IgnoresDone(line) ==
    LET trimmed == Trim(line)
        parsed == JsonParseChunk(Slice6(trimmed))
    IN  IF trimmed = << >> \/ ~StartsWithData(trimmed)
        THEN [kind |-> "skip", value |-> EmptyObject]
        ELSE IF parsed.ok THEN [kind |-> "yield", value |-> parsed.value]
        ELSE [kind |-> "skip", value |-> EmptyObject]

\* the body of the loop over the lines: what one line makes the generator do
HandleLine(line) ==
    LET trimmed == Trim(line)
        data == Slice6(trimmed)
        parsed == JsonParseChunk(data)
    IN  IF trimmed = << >> \/ ~StartsWithData(trimmed)
        THEN [kind |-> "skip", value |-> EmptyObject]
        ELSE IF data = <<"[DONE]">>
        THEN [kind |-> "done", value |-> EmptyObject]
        ELSE IF parsed.ok THEN [kind |-> "yield", value |-> parsed.value]
        ELSE [kind |-> "skip", value |-> EmptyObject]

DataLine(payload) == <<"data:", " ">> \o payload \o NewLine

\* what one read of the body can hold: a whole event, the two halves of an event, the
\* sentinel, a payload that is not JSON, a payload that is JSON but no chunk, a
\* finish chunk with CRLF line ends, a comment line, and the sentinel with a data
\* line behind it
ReadValues ==
    {DataLine(TextChunkText) \o NewLine,
     <<"data:", " ", TextChunkHead>>,
     <<TextChunkTail, "\n">>,
     DataLine(<<"[DONE]">>),
     DataLine(<<"{">>),
     DataLine(<<"{", "}">>),
     <<"data:", " ", FinishChunkText, "\r", "\n", "\r", "\n">>,
     <<":", " ", "\n">>,
     DataLine(<<"[DONE]">>) \o DataLine(TextChunkText)}

\* const { done, value } = await reader.read() with done false: the value is added
\* to the buffer, the complete lines are taken out of it
ReadValue ==
    /\ pc = "streaming"
    /\ pending = << >>
    /\ Len(received) < MaxReads
    /\ \E value \in ReadValues :
         LET lines == Split(buffer \o value)
         IN  /\ received' = Append(received, value)
             /\ buffer' = lines[Len(lines)]
             /\ pending' = SubSeq(lines, 1, Len(lines) - 1)
    /\ UNCHANGED <<pc, state, chunks, written, steps, threw, failure, anthropicRequest,
                   cerebrasRequest, cerebrasResponse, response, called, outcomes,
                   cleaned, connected, handlers>>

\* one turn of the loop over the lines: the line is skipped, or it is the sentinel
\* and the generator returns (the handler's loop ends, res.end()), or its payload is
\* yielded to the handler's loop
OnLine ==
    /\ pc = "streaming"
    /\ pending # << >>
    /\ pending' = Tail(pending)
    /\ LET h == HandleLine(Head(pending))
       IN  CASE h.kind = "yield" -> OnChunkOf({h.value})
             [] h.kind = "done" ->
                  /\ pc' = "ended"
                  /\ UNCHANGED <<state, chunks, written, steps, threw, failure,
                                 anthropicRequest, cerebrasRequest, cerebrasResponse,
                                 response, called, outcomes>>
             [] OTHER ->
                  UNCHANGED <<pc, state, chunks, written, steps, threw, failure,
                              anthropicRequest, cerebrasRequest, cerebrasResponse,
                              response, called, outcomes>>
    /\ UNCHANGED <<cleaned, received, buffer, connected, handlers>>

\* reader.read() gives done: the loop breaks with what is left in the buffer, the
\* generator returns, the handler's loop ends
BodyEnd ==
    /\ pending = << >>
    /\ StreamEnd

\* fetch gives a non-2xx status or no body before the first read, or a read rejects
ReadFails ==
    /\ pending = << >>
    /\ StreamError
    /\ failure' \in {"status", "no_body"} => received = << >>

NextStream == SendInitialEvents \/ ReadValue \/ OnLine \/ BodyEnd \/ ReadFails

SpecStream == Init /\ [][NextStream]_vars

\* ---------------------------------------------------------------------------
\* C26, C27: the lines of the provider stream
\* ---------------------------------------------------------------------------

RECURSIVE Concat(_)
Concat(texts) == IF texts = << >> THEN EmptyStr ELSE Head(texts) \o Concat(Tail(texts))

\* the complete lines of everything read so far, whatever the reads were
AllLines ==
    LET l == Split(Concat(received)) IN SubSeq(l, 1, Len(l) - 1)

\* the lines the generator has gone through
Handled == SubSeq(AllLines, 1, Len(AllLines) - Len(pending))

IsSentinel(line) == Trim(line) = <<"data:", " ", "[DONE]">>

IsDataLine(line) == StartsWithData(Trim(line)) /\ ~IsSentinel(line)

PayloadOf(line) == JsonParseChunk(Slice6(Trim(line)))

\* the lines before the first sentinel line
BeforeSentinel(lines) ==
    IF \E i \in 1..Len(lines) : IsSentinel(lines[i])
    THEN SubSeq(lines, 1, (CHOOSE i \in 1..Len(lines) :
                              /\ IsSentinel(lines[i])
                              /\ \A j \in 1..(i - 1) : ~IsSentinel(lines[j])) - 1)
    ELSE lines

RECURSIVE ParsedPayloads(_)

\* the values of the data lines whose payload is JSON, in line order
ParsedPayloads(lines) ==
    IF lines = << >> THEN << >>
    ELSE (IF IsDataLine(Head(lines)) /\ PayloadOf(Head(lines)).ok
          THEN <<PayloadOf(Head(lines)).value>> ELSE << >>)
         \o ParsedPayloads(Tail(lines))

SentinelHandled == \E i \in 1..Len(Handled) : IsSentinel(Handled[i])

\* C26: the values createCompletionStream has yielded are those of the data lines
\* before the first 'data: [DONE]' line, each once and in line order; once that
\* line is handled the stream has ended without an error and no line after it, in
\* the same read or a later one, is handled.
C26_SentinelEndsStream ==
    /\ chunks = ParsedPayloads(BeforeSentinel(Handled))
    /\ SentinelHandled =>
          /\ IsSentinel(Handled[Len(Handled)])
          /\ BeforeSentinel(Handled) = SubSeq(Handled, 1, Len(Handled) - 1)
          /\ pc = "ended"
          /\ failure = ""
          /\ \A i \in 1..Len(written) : written[i] # ErrorEvent

\* the sentinel came after a chunk whose text arrived in two reads, and a data line
\* that followed it in the same read was not handled
C26_Witness ==
    /\ SentinelHandled
    /\ Len(chunks) >= 1
    /\ \E i \in 1..Len(received) : received[i] = <<"data:", " ", TextChunkHead>>
    /\ \E i \in 1..Len(pending) : IsDataLine(pending[i]) /\ PayloadOf(pending[i]).ok

\* a data line whose payload is a chunk
IsWellFormed(line) ==
    IsDataLine(line) /\ PayloadOf(line).ok /\ HasChoices(PayloadOf(line).value)

RECURSIVE WellFormedChunks(_)
WellFormedChunks(lines) ==
    IF lines = << >> THEN << >>
    ELSE (IF IsWellFormed(Head(lines)) THEN <<PayloadOf(Head(lines)).value>> ELSE << >>)
         \o WellFormedChunks(Tail(lines))

\* C27: a data line whose payload is not a chunk yields nothing and raises nothing:
\* the chunks yielded are those of the well-formed data lines before the sentinel,
\* in order, and unless the provider call itself failed no error event is written
\* to the client.
C27_MalformedPayloadSkipped ==
    /\ chunks = WellFormedChunks(BeforeSentinel(Handled))
    /\ failure \notin StreamFailures =>
          /\ failure = ""
          /\ \A i \in 1..Len(written) : written[i] # ErrorEvent
----------------------------------------------------------------------------
(* Two streaming requests at the same time                                 *)

\* the two calls of handleStreamingResponse; they take turns at every await, that
\* is between two chunks
HandlerIds == {1, 2}

HandlerModel(r) == IF r = 1 THEN "claude-x" ELSE "claude-y"

\* generateId(): 24 characters drawn with Math.random; the two calls draw their
\* ids independently
HandlerMessageIds == {"msg_A", "msg_B"}

\* a handler whose state is the one of the first call
StateOf_Shared(h, r) == h[1].state

\* const state = createStreamState(originalModel): a local of the call
StateOf(h, r) == h[r].state

Handler(at, streamState, streamChunks, events, failed) ==
    [pc |-> at, state |-> streamState, chunks |-> streamChunks, written |-> events,
     failure |-> failed]

InitHandlers ==
    /\ pc = "idle"
    /\ state = NoStreamState
    /\ chunks = << >>
    /\ written = << >>
    /\ steps = << >>
    /\ threw = FALSE
    /\ failure = ""
    /\ anthropicRequest = NoRequest
    /\ cerebrasRequest = NoCerebrasRequest
    /\ cerebrasResponse = NoReply
    /\ response = NoResponse
    /\ called = << >>
    /\ outcomes = << >>
    /\ cleaned = << >>
    /\ received = << >>
    /\ buffer = EmptyStr
    /\ pending = << >>
    /\ connected = TRUE
    /\ \E ids \in [HandlerIds -> HandlerMessageIds] :
         handlers = [r \in HandlerIds |->
                        Handler("request", createStreamState(HandlerModel(r), ids[r]),
                                << >>, << >>, "")]

\* the variables of the single-request specifications
singleVars ==
    <<pc, state, chunks, written, steps, threw, failure, anthropicRequest, cerebrasRequest,
      cerebrasResponse, response, called, outcomes, cleaned, received, buffer, pending,
      connected>>

\* res.write(message_start); res.write(ping) of call r
HandlerStart(r) ==
    /\ handlers[r].pc = "request"
    /\ handlers' = [handlers EXCEPT ![r] =
                      Handler("streaming", StateOf(handlers, r), << >>,
                              <<createMessageStartEvent(StateOf(handlers, r)), Ping>>, "")]
    /\ UNCHANGED singleVars

\* one iteration of the loop of call r
HandlerChunk(r) ==
    /\ handlers[r].pc = "streaming"
    /\ Len(handlers[r].chunks) < MaxHandlerChunks
    /\ \E chunk \in ServerChunks :
         LET t == translateStreamChunk(chunk, StateOf(handlers, r))
         IN  handlers' = [handlers EXCEPT ![r] =
                            Handler(IF t.threw THEN "ended" ELSE "streaming",
                                    t.state,
                                    Append(handlers[r].chunks, chunk),
                                    IF t.threw THEN Append(handlers[r].written, ErrorEvent)
                                    ELSE handlers[r].written \o t.events,
                                    IF t.threw THEN "translate" ELSE "")]
    /\ UNCHANGED singleVars

\* the provider stream of call r ends: res.end()
HandlerEnd(r) ==
    /\ handlers[r].pc = "streaming"
    /\ handlers' = [handlers EXCEPT ![r].pc = "ended"]
    /\ UNCHANGED singleVars

\* the provider stream of call r fails: one error event, res.end()
HandlerError(r) ==
    /\ handlers[r].pc = "streaming"
    /\ handlers' = [handlers EXCEPT ![r].pc = "ended", ![r].failure = "read",
                                    ![r].written = Append(@, ErrorEvent)]
    /\ UNCHANGED singleVars

NextHandlers ==
    \E r \in HandlerIds :
        HandlerStart(r) \/ HandlerChunk(r) \/ HandlerEnd(r) \/ HandlerError(r)

SpecHandlers == InitHandlers /\ [][NextHandlers]_vars

----------------------------------------------------------------------------
(* A caller that disconnects during a streaming reply                      *)

\* the caller closes the connection; handleStreamingResponse has no listener for it
\* and res.write on a closed connection does not throw
ClientDisconnect ==
    /\ pc = "streaming"
    /\ connected
    /\ connected' = FALSE
    /\ UNCHANGED <<pc, state, chunks, written, steps, threw, failure, anthropicRequest,
                   cerebrasRequest, cerebrasResponse, response, called, outcomes,
                   cleaned, received, buffer, pending, handlers>>

NextDisconnect ==
    SendInitialEvents \/ OnServerChunk \/ StreamEnd \/ StreamError \/ ClientDisconnect

SpecDisconnect == Init /\ [][NextDisconnect]_vars

\* ---------------------------------------------------------------------------
\* C28: two streaming requests at the same time
\* ---------------------------------------------------------------------------

RECURSIVE Alone(_, _, _)

\* the state and the events of a reply that gets the chunks cs, one after the
\* other, on its own: from the state s, after the events out
Alone(s, cs, out) ==
    IF cs = << >> THEN [state |-> s, written |-> out]
    ELSE LET t == translateStreamChunk(Head(cs), s)
         IN  IF t.threw THEN [state |-> t.state, written |-> Append(out, ErrorEvent)]
             ELSE Alone(t.state, Tail(cs), out \o t.events)

\* what call r has written and holds when it is the only call of the server
HandledAlone(r) ==
    LET s == createStreamState(HandlerModel(r), handlers[r].state.messageId)
        a == Alone(s, handlers[r].chunks, <<createMessageStartEvent(s), Ping>>)
    IN  IF handlers[r].pc = "request" THEN [state |-> s, written |-> << >>]
        ELSE IF handlers[r].failure = "read"
        THEN [state |-> a.state, written |-> Append(a.written, ErrorEvent)]
        ELSE a

\* C28: under every interleaving of the chunks of two streaming requests, each
\* request has written the events, and holds the StreamState, that its own chunks
\* give it when it is handled alone, whatever the other request received and
\* however the other request ended.
C28_RequestsIsolated ==
    \A r \in HandlerIds :
        /\ handlers[r].written = HandledAlone(r).written
        /\ handlers[r].state = HandledAlone(r).state

\* the first request ended with an error after the second had started a text unit,
\* and the second went on and finished its reply
C28_Witness ==
    /\ handlers[1].failure = "translate"
    /\ handlers[2].pc = "ended"
    /\ handlers[2].failure = ""
    /\ Len(handlers[2].chunks) = 2
    /\ handlers[2].written[Len(handlers[2].written)].type = "message_stop"

\* ---------------------------------------------------------------------------
\* C29: a caller that disconnects
\* ---------------------------------------------------------------------------

\* C29: once the caller of a streaming request has disconnected, no further chunk
\* is pulled from the provider stream or translated for that request.
C29_NoChunkAfterDisconnect ==
    [][~connected => (chunks' = chunks /\ state' = state)]_vars

\* ---------------------------------------------------------------------------
\* C30: deltas carry increments
\* ---------------------------------------------------------------------------

IsTextDeltaStep(st) ==
    st.op = "push" /\ st.event.type = "content_block_delta"
                   /\ st.event.delta.type = "text_delta"

IsJsonDeltaStep(st) ==
    st.op = "push" /\ st.event.type = "content_block_delta"
                   /\ st.event.delta.type = "input_json_delta"

\* the close of a text unit (tool units are closed with their provider position)
IsTextStopStep(st) ==
    st.op = "push" /\ st.pos = -1 /\ st.event.type = "content_block_stop"

RECURSIVE TextDeltasAt(_, _)

\* the text_delta payloads at index k among the first n steps, concatenated
TextDeltasAt(k, n) ==
    IF n = 0 THEN EmptyStr
    ELSE TextDeltasAt(k, n - 1)
         \o (IF IsTextDeltaStep(steps[n]) /\ steps[n].event.index = k
             THEN steps[n].event.delta.text ELSE EmptyStr)

RECURSIVE JsonDeltasFor(_, _)

\* the partial_json payloads emitted for the tool call at provider position key
\* among the first n steps, concatenated
JsonDeltasFor(key, n) ==
    IF n = 0 THEN EmptyStr
    ELSE JsonDeltasFor(key, n - 1)
         \o (IF IsJsonDeltaStep(steps[n]) /\ steps[n].pos = key
             THEN steps[n].event.delta.partial_json ELSE EmptyStr)

RECURSIVE TextStops(_)

\* the positions, among the first n steps, of the closes of text units
TextStops(n) ==
    IF n = 0 THEN << >>
    ELSE TextStops(n - 1) \o (IF IsTextStopStep(steps[n]) THEN <<n>> ELSE << >>)

IsFinalText(block) == block.type = "text"

\* every finalized text unit holds the concatenation of the text deltas emitted at
\* its index up to its close, and every tool call's buffer the concatenation of
\* the fragments emitted for it
BuffersAreConcatenations ==
    LET stops == TextStops(Len(steps))
        texts == SelectSeq(state.contentBlocks, IsFinalText)
    IN  /\ Len(texts) = Len(stops)
        /\ \A j \in 1..Len(stops) :
              texts[j].text = TextDeltasAt(steps[stops[j]].event.index, stops[j])
        /\ \A p \in 1..Len(state.toolCallStates) :
              state.toolCallStates[p].argumentsBuffer =
                  JsonDeltasFor(state.toolCallStates[p].key, Len(steps))

\* the deltas a chunk causes carry the chunk's own content and argument fragments
DeltasOfChunk ==
    chunks' # chunks =>
        LET chunk == chunks'[Len(chunks')]
            new == SubSeq(steps', Len(steps) + 1, Len(steps'))
        IN  /\ \A n \in 1..Len(new) :
                  IsTextDeltaStep(new[n]) =>
                      chunk.content # EmptyStr /\ new[n].event.delta.text = chunk.content
            /\ \A n \in 1..Len(new) :
                  IsJsonDeltaStep(new[n]) =>
                      \E i \in 1..Len(chunk.tool_calls) :
                          /\ chunk.tool_calls[i].index = new[n].pos
                          /\ chunk.tool_calls[i].arguments = new[n].event.delta.partial_json
            /\ Cardinality({n \in 1..Len(new) : IsTextDeltaStep(new[n])}) <= 1
            /\ Cardinality({n \in 1..Len(new) : IsJsonDeltaStep(new[n])})
                  <= Len(chunk.tool_calls)

\* C30: every content_block_delta carries the fragment of the chunk that caused it,
\* never the accumulated text; so the text of a finalized text unit is the
\* concatenation of the text_delta payloads at its index, and the argument buffer of
\* a tool unit is the concatenation of the partial_json payloads emitted for it.
C30_DeltasAreIncrements == []BuffersAreConcatenations /\ [][DeltasOfChunk]_vars

\* a tool call whose arguments arrived in two fragments, each in a delta of its own
C30_Witness ==
    /\ \E p \in 1..Len(state.toolCallStates) :
          /\ state.toolCallStates[p].argumentsBuffer = <<"{", "}">>
          /\ Cardinality({n \in 1..Len(steps) :
                             /\ IsJsonDeltaStep(steps[n])
                             /\ steps[n].pos = state.toolCallStates[p].key}) = 2

\* ---------------------------------------------------------------------------
\* C31: the events of a finish chunk
\* ---------------------------------------------------------------------------

IsMessageEnd(e) == e.type \in {"message_delta", "message_stop"}

\* the output of a chunk ends with one message_delta and one message_stop, and has
\* no other of the two
EndsWithDeltaAndStop(out) ==
    /\ Len(out) >= 2
    /\ out[Len(out) - 1].type = "message_delta"
    /\ out[Len(out)] = MessageStop
    /\ \A k \in 1..(Len(out) - 2) : ~IsMessageEnd(out[k])

FinishEventsOfChunk ==
    chunks' # chunks =>
        LET chunk == chunks'[Len(chunks')]
            out == SelectSeq(SubSeq(written', Len(written) + 1, Len(written')), IsTranslated)
        IN  IF HasFinish(chunk) THEN EndsWithDeltaAndStop(out)
            ELSE \A k \in 1..Len(out) : ~IsMessageEnd(out[k])

\* C31: a chunk with a finish signal yields exactly one message_delta directly
\* followed by exactly one message_stop, as its last two events and after all its
\* content_block_stop events; a chunk without a finish signal yields neither.
C31_FinishEvents == [][FinishEventsOfChunk]_vars

\* what does hold: the same, for the chunks whose translation does not throw
FinishEventsUnlessThrown == [][~threw' => FinishEventsOfChunk]_vars

\* ---------------------------------------------------------------------------
\* C32: registration and start of a tool call
\* ---------------------------------------------------------------------------

IsToolStartStep(st) == IsToolPush(st) /\ IsStart(st.event)

\* every position is registered at most once and started at most once, and a start
\* carries a non-empty id and a non-empty name
RegisteredAndStartedOnce ==
    /\ \A j, k \in 1..Len(steps) :
          (IsRegister(steps[j]) /\ IsRegister(steps[k]) /\ steps[j].pos = steps[k].pos)
              => j = k
    /\ \A j, k \in 1..Len(steps) :
          (IsToolStartStep(steps[j]) /\ IsToolStartStep(steps[k])
              /\ steps[j].pos = steps[k].pos) => j = k
    /\ \A k \in 1..Len(steps) :
          IsToolStartStep(steps[k]) =>
              /\ steps[k].event.content_block.id # ""
              /\ steps[k].event.content_block.name # ""
              /\ \E j \in 1..(k - 1) : IsRegister(steps[j]) /\ steps[j].pos = steps[k].pos

\* the deltas of the chunk for position p that carry an id
CarriesId(chunk, p) ==
    \E i \in 1..Len(chunk.tool_calls) :
        chunk.tool_calls[i].index = p /\ chunk.tool_calls[i].id # ""

\* a chunk registers exactly the unseen positions for which it carries an id, and
\* does nothing for an unseen position for which it carries none
RegistrationOfChunk ==
    chunks' # chunks =>
        LET chunk == chunks'[Len(chunks')]
            new == SubSeq(steps', Len(steps) + 1, Len(steps'))
            unseen(p) == MapPos(state.toolCallStates, p) = 0
        IN  /\ \A n \in 1..Len(new) :
                  IsRegister(new[n]) => unseen(new[n].pos) /\ CarriesId(chunk, new[n].pos)
            /\ (chunk.hasChoice /\ chunk.hasToolCalls) =>
                  \A i \in 1..Len(chunk.tool_calls) :
                      LET p == chunk.tool_calls[i].index
                      IN  unseen(p) =>
                              IF CarriesId(chunk, p)
                              THEN \E n \in 1..Len(new) : IsRegister(new[n]) /\ new[n].pos = p
                              ELSE \A n \in 1..Len(new) : new[n].pos # p

\* C32: a tool call is registered only by the first delta for its provider position
\* that carries an id; its tool_use content_block_start is emitted at most once per
\* position, after the registration and with a non-empty id and name; a delta for
\* an unseen position without an id registers nothing and emits no event.
C32_ToolRegistration == []RegisteredAndStartedOnce /\ [][RegistrationOfChunk]_vars

\* a delta without an id for an unseen position did nothing, the next delta
\* registered the position without a name, and the third delta started the unit
C32_Witness ==
    /\ Len(chunks) = 3
    /\ ~CarriesId(chunks[1], 0)
    /\ chunks[1].hasToolCalls /\ Len(chunks[1].tool_calls) = 1
    /\ chunks[1].tool_calls[1].index = 0
    /\ Len(steps) = 2
    /\ IsRegister(steps[1]) /\ steps[1].pos = 0
    /\ IsToolStartStep(steps[2]) /\ steps[2].pos = 0
    /\ Len(chunks[2].tool_calls) = 1
    /\ chunks[2].tool_calls[1].name = ""

\* ---------------------------------------------------------------------------
\* C33: the reply identifier and the echoed model of a StreamState
\* ---------------------------------------------------------------------------

\* no step of a handler changes the messageId or the model of a StreamState
IdentityKept ==
    \A r \in HandlerIds :
        /\ handlers'[r].state.messageId = handlers[r].state.messageId
        /\ handlers'[r].state.model = handlers[r].state.model

\* the message_start a handler has written carries the id and the model of its
\* state, empty content, a null stop reason and zero output tokens
MessageStartOfState ==
    \A r \in HandlerIds :
        handlers[r].written # << >> =>
            LET e == handlers[r].written[1]
            IN  /\ e.type = "message_start"
                /\ e.message.id = handlers[r].state.messageId
                /\ e.message.model = handlers[r].state.model
                /\ e.message.model = HandlerModel(r)
                /\ e.message.content = << >>
                /\ e.message.stop_reason = "null"
                /\ e.message.usage.output_tokens = 0

DifferentIds == handlers[1].state.messageId # handlers[2].state.messageId

IdentityFixedForEachState == [][IdentityKept]_vars /\ []MessageStartOfState

\* ---------------------------------------------------------------------------
\* C34: an open text unit has text
\* ---------------------------------------------------------------------------

OpenTextHasBuffer == state.textBlockStarted => state.textBuffer # EmptyStr

\* a chunk with an empty text delta and nothing else performs no step, emits no
\* event and leaves the state as it was
EmptyTextDoesNothing ==
    chunks' # chunks =>
        LET chunk == chunks'[Len(chunks')]
        IN  (chunk.content = EmptyStr /\ ~chunk.hasToolCalls /\ ~HasFinish(chunk)) =>
                /\ steps' = steps
                /\ written' = written
                /\ state' = state

\* a chunk that carries tool calls leaves no text unit open, and closes the one
\* that was open or that its own text opened
ToolArrivalClosesText ==
    chunks' # chunks =>
        LET chunk == chunks'[Len(chunks')]
            new == SubSeq(steps', Len(steps) + 1, Len(steps'))
        IN  chunk.hasToolCalls =>
                /\ ~state'.textBlockStarted
                /\ (state.textBlockStarted \/ chunk.content # EmptyStr) =>
                       \E n \in 1..Len(new) : IsTextStopStep(new[n])

\* C34: whenever a text unit is open its buffer is non-empty, because an empty
\* text delta opens no unit and emits nothing; hence the arrival of tool calls,
\* which closes the text unit only if the buffer is non-empty, closes every open
\* text unit.
C34_OpenTextHasBuffer ==
    []OpenTextHasBuffer /\ [][EmptyTextDoesNothing]_vars /\ [][ToolArrivalClosesText]_vars

\* an empty delta did nothing, a delta opened a text unit, a tool call closed it
C34_Witness ==
    /\ Len(chunks) = 3
    /\ chunks[1].content = EmptyStr /\ ~chunks[1].hasToolCalls /\ ~HasFinish(chunks[1])
    /\ chunks[2].content # EmptyStr /\ ~chunks[2].hasToolCalls /\ ~HasFinish(chunks[2])
    /\ chunks[3].hasToolCalls /\ chunks[3].content = EmptyStr
    /\ IsTextStartPush(steps[1])
    /\ \E n \in 1..Len(steps) : IsTextStopStep(steps[n])
    /\ ~state.textBlockStarted

\* ---------------------------------------------------------------------------
\* C35: the token counts of a StreamState
\* ---------------------------------------------------------------------------

ReportsUsage(chunk) == "usage" \in DOMAIN chunk

TokensStayZero == state.inputTokens = 0 /\ state.outputTokens = 0

\* every message_start written reports zero input tokens and every message_delta
\* zero output tokens
UsageReportedZero ==
    \A k \in 1..Len(written) :
        /\ written[k].type = "message_start" => written[k].message.usage.input_tokens = 0
        /\ written[k].type = "message_delta" => written[k].usage.output_tokens = 0

\* no chunk changes the token counts of the state
TokensKept ==
    /\ state'.inputTokens = state.inputTokens
    /\ state'.outputTokens = state.outputTokens

\* C35: translateStreamChunk never modifies inputTokens or outputTokens, so for
\* every chunk sequence the message_delta reports usage.output_tokens = 0 and the
\* message_start reports input_tokens = 0, whatever the provider reports.
C35_TokenCountsZero == [](TokensStayZero /\ UsageReportedZero) /\ [][TokensKept]_vars

\* the provider reported its usage on the final chunk, and the message_delta of that
\* chunk was written
C35_Witness ==
    /\ Len(chunks) >= 2
    /\ ReportsUsage(LastChunk)
    /\ LastChunk.usage.completion_tokens = 1
    /\ chunks[1].content # EmptyStr
    /\ written[1].type = "message_start"
    /\ \E k \in 1..Len(written) : written[k].type = "message_delta"

\* ---------------------------------------------------------------------------
\* Replies with text and two tool calls whose arguments arrive in fragments
\* ---------------------------------------------------------------------------

\* the chunks of such a reply: a text delta, the first delta of the tool calls at
\* positions 0 and 1, a later fragment and a later name for position 0, and the
\* finish chunks of three finish reasons, one of them outside the mapping
ReplyChunks ==
    {Chunk(<<"a">>, FALSE, << >>, ""),
     Chunk(EmptyStr, TRUE, <<ToolCall(0, "call_X", "f", <<"{">>)>>, ""),
     Chunk(EmptyStr, TRUE, <<ToolCall(0, "", "", <<"}">>)>>, ""),
     Chunk(EmptyStr, TRUE, <<ToolCall(0, "", "g", EmptyStr)>>, ""),
     Chunk(EmptyStr, TRUE, <<ToolCall(1, "call_Y", "g", <<"1">>)>>, ""),
     Chunk(EmptyStr, FALSE, << >>, "stop"),
     Chunk(EmptyStr, FALSE, << >>, "tool_calls"),
     Chunk(EmptyStr, FALSE, << >>, "eos")}

\* one iteration of the for await loop, for the chunks of ReplyChunks
OnReplyChunk ==
    /\ pc = "streaming"
    /\ Len(chunks) < MaxReplyChunks
    /\ \E chunk \in ReplyChunks :
         LET r == translateStreamChunk(chunk, state)
         IN  /\ chunks' = Append(chunks, chunk)
             /\ state' = r.state
             /\ steps' = steps \o r.steps
             /\ threw' = r.threw
             /\ failure' = IF r.threw THEN "translate" ELSE failure
             /\ written' = IF r.threw THEN Append(written, ErrorEvent)
                           ELSE written \o r.events
             /\ pc' = IF r.threw THEN "ended" ELSE "streaming"
    /\ UNCHANGED <<anthropicRequest, cerebrasRequest, cerebrasResponse, response, called,
                   outcomes>>
    /\ UNCHANGED otherVars

NextReply == SendInitialEvents \/ OnReplyChunk \/ StreamEnd

SpecReply == Init /\ [][NextReply]_vars

\* ---------------------------------------------------------------------------
\* C36: the streamed reply against translateResponse of the aggregated reply
\* ---------------------------------------------------------------------------

IsToolOnly(chunk) ==
    chunk.content = EmptyStr /\ chunk.hasToolCalls /\ Len(chunk.tool_calls) = 1
                             /\ ~HasFinish(chunk)

IsLoneFinish(chunk) == chunk.content = EmptyStr /\ ~chunk.hasToolCalls /\ HasFinish(chunk)

\* the chunks before the finish chunk that carry a delta of a tool call
ToolChunkAt(k) == k \in 1..(Len(chunks) - 1) /\ IsToolOnly(chunks[k])

DeltaAt(k) == chunks[k].tool_calls[1]

\* the number of tool calls of the reply
ToolCount == Cardinality({DeltaAt(k).index : k \in {j \in 1..(Len(chunks) - 1) : ToolChunkAt(j)}})

\* the first chunk that carries a delta for position p
FirstOf(p) == CHOOSE k \in 1..Len(chunks) :
                  /\ ToolChunkAt(k) /\ DeltaAt(k).index = p
                  /\ \A j \in 1..(k - 1) : ToolChunkAt(j) => DeltaAt(j).index # p

RECURSIVE ArgumentsOf(_, _)

\* the argument fragments for position p among the first n chunks, concatenated
ArgumentsOf(p, n) ==
    IF n = 0 THEN EmptyStr
    ELSE ArgumentsOf(p, n - 1)
         \o (IF ToolChunkAt(n) /\ DeltaAt(n).index = p THEN DeltaAt(n).arguments
             ELSE EmptyStr)

\* text deltas, then the tool calls position by position from 0, the first delta
\* of each with id and name and the later ones with arguments only, then one
\* chunk with the finish signal alone; the arguments of every tool call parse;
\* there is at least one unit
WellFormedReply ==
    /\ Len(chunks) >= 2
    /\ IsLoneFinish(LastChunk)
    /\ \A k \in 1..(Len(chunks) - 1) : IsTextOnly(chunks[k]) \/ IsToolOnly(chunks[k])
    /\ \A j, k \in 1..(Len(chunks) - 1) :
          (j < k /\ IsToolOnly(chunks[j])) =>
              /\ IsToolOnly(chunks[k])
              /\ DeltaAt(j).index <= DeltaAt(k).index
    /\ \A k \in 1..(Len(chunks) - 1) :
          IsToolOnly(chunks[k]) =>
              /\ DeltaAt(k).index < ToolCount
              /\ IF FirstOf(DeltaAt(k).index) = k
                 THEN DeltaAt(k).id # "" /\ DeltaAt(k).name # ""
                 ELSE DeltaAt(k).id = "" /\ DeltaAt(k).name = ""
    /\ \A p \in 0..(ToolCount - 1) : JsonParse(ArgumentsOf(p, Len(chunks))).ok

RECURSIVE TextOf(_)

\* the text deltas of the first n chunks, concatenated
TextOf(n) == IF n = 0 THEN EmptyStr ELSE TextOf(n - 1) \o chunks[n].content

\* the reply the provider gives for the same completion when it is not streamed
AggregatedReply ==
    ChatCompletionsResponse(
        "chatcmpl-1",
        <<Choice(TextOf(Len(chunks)),
                 IF ToolCount = 0 THEN None
                 ELSE Some([q \in 1..ToolCount |->
                               ReplyToolCall(DeltaAt(FirstOf(q - 1)).id,
                                             DeltaAt(FirstOf(q - 1)).name,
                                             ArgumentsOf(q - 1, Len(chunks)))]),
                 LastChunk.finish_reason)>>)

TranslatedReply == translateResponse(AggregatedReply, state.model)

\* the stop reason of the streamed reply: that of the last event but one
StreamedStopReason == written[Len(written) - 1].delta.stop_reason

SameUnits ==
    /\ ~threw
    /\ TranslatedReply.ok
    /\ state.contentBlocks = TranslatedReply.value.content

SameStopReason ==
    /\ ~threw
    /\ written[Len(written) - 1].type = "message_delta"
    /\ StreamedStopReason = TranslatedReply.value.stop_reason

\* the finish reason is one the stop-reason table maps
IsMappedReason(finishReason) ==
    finishReason \in {"stop", "length", "tool_calls", "content_filter"}

\* C36: for a well-formed provider stream with at least one unit, the completed
\* units in the StreamState after the finish chunk equal, in order and content, the
\* content list translateResponse returns for the aggregated reply, and both paths
\* give the same stop reason.
C36_StreamMatchesResponse == WellFormedReply => (SameUnits /\ SameStopReason)

\* C36 as it holds: the units are the same; the stop reasons are the same when the
\* reply has a tool call or its finish reason is one the table maps, and for any
\* other finish reason the streamed reply says end_turn where translateResponse
\* gives none.
C36_StreamMatchesResponseForMappedReasons ==
    WellFormedReply =>
        /\ SameUnits
        /\ (ToolCount > 0 \/ IsMappedReason(LastChunk.finish_reason)) => SameStopReason
        /\ (ToolCount = 0 /\ ~IsMappedReason(LastChunk.finish_reason)) =>
               /\ StreamedStopReason = "end_turn"
               /\ TranslatedReply.value.stop_reason = "null"

\* a text delta, the tool call at position 0 in two fragments, the tool call at
\* position 1, the finish chunk: three units on both paths
C36_Witness ==
    /\ WellFormedReply
    /\ Len(chunks) = 5
    /\ ToolCount = 2
    /\ TextOf(Len(chunks)) = <<"a">>
    /\ Len(state.contentBlocks) = 3
    /\ ArgumentsOf(0, Len(chunks)) = <<"{", "}">>
    /\ TranslatedReply.ok /\ Len(TranslatedReply.value.content) = 3

\* ---------------------------------------------------------------------------
\* C37: a finish signal on a reply without units
\* ---------------------------------------------------------------------------

\* no text unit was opened and no tool call registered
NoUnitOpened(s) ==
    /\ s.currentBlockIndex = -1
    /\ ~s.textBlockStarted
    /\ s.toolCallStates = << >>
    /\ s.contentBlocks = << >>

\* the chunk opens no unit itself: no text, no tool call delta with an id
OpensNoUnit(chunk) ==
    /\ chunk.content = EmptyStr
    /\ \A i \in 1..Len(chunk.tool_calls) : chunk.tool_calls[i].id = ""

\* the non-streamed reply without text and tool calls
EmptyReply(finishReason) ==
    ChatCompletionsResponse("chatcmpl-1", <<Choice(EmptyStr, None, finishReason)>>)

FinishWithoutUnits ==
    chunks' # chunks =>
        LET chunk == chunks'[Len(chunks')]
            out == SubSeq(written', Len(written) + 1, Len(written'))
            reply == translateResponse(EmptyReply(chunk.finish_reason), state.model)
        IN  (NoUnitOpened(state) /\ HasFinish(chunk) /\ OpensNoUnit(chunk)) =>
                /\ ~threw'
                /\ Len(out) = 2
                /\ out[1].type = "message_delta"
                /\ out[2] = MessageStop
                /\ steps' = steps \o <<[op |-> "push", pos |-> -1, event |-> out[1]],
                                       [op |-> "push", pos |-> -1, event |-> out[2]]>>
                /\ state'.contentBlocks = << >>
                /\ reply.ok
                /\ reply.value.content = <<TextBlock(EmptyStr)>>

\* C37: a finish chunk on a StreamState in which no unit was ever opened emits
\* exactly message_delta and message_stop, no content_block event, and leaves
\* the completed units empty, whereas translateResponse gives the reply without
\* text and tool calls one empty text unit.
C37_FinishWithoutUnits == [][FinishWithoutUnits]_vars

\* the finish chunk came first and alone
C37_Witness ==
    /\ Len(chunks) = 1
    /\ HasFinish(chunks[1])
    /\ OpensNoUnit(chunks[1])
    /\ ~threw
    /\ Len(Emitted) = 2
    /\ Emitted[1].type = "message_delta"
    /\ state.contentBlocks = << >>

\* ---------------------------------------------------------------------------
\* C38: chunks after a finish signal
\* ---------------------------------------------------------------------------

\* the steps the chunk of this step performed
NewSteps == SubSeq(steps', Len(steps) + 1, Len(steps'))

IsStopStep(st) == st.op = "push" /\ st.event.type = "content_block_stop"

\* a chunk with the finish signal alone changes nothing of the state but the
\* completed units, which it only extends
FinishKeepsState ==
    chunks' # chunks =>
        (IsLoneFinish(chunks'[Len(chunks')]) =>
            /\ state' = [state EXCEPT !.contentBlocks = state'.contentBlocks]
            /\ Len(state'.contentBlocks) >= Len(state.contentBlocks)
            /\ SubSeq(state'.contentBlocks, 1, Len(state.contentBlocks))
                   = state.contentBlocks)

\* a chunk with the finish signal alone right after another one performs the
\* stops of the one before again, and appends the units that one appended again
SecondFinishRepeats ==
    (chunks' # chunks /\ chunks # << >>) =>
        LET m == Len(NewSteps) - 2
            n == Len(state.contentBlocks)
        IN  (IsLoneFinish(LastChunk) /\ IsLoneFinish(chunks'[Len(chunks')])) =>
                /\ ~threw'
                /\ m >= 0
                /\ \A k \in 1..m : IsStopStep(NewSteps[k])
                /\ SubSeq(NewSteps, 1, m) = SubSeq(steps, Len(steps) - m - 1, Len(steps) - 2)
                /\ state'.contentBlocks
                       = state.contentBlocks \o SubSeq(state.contentBlocks, n - m + 1, n)

\* a text delta right after a finish signal that closed the text unit is emitted
\* at the index of that unit, without a new start
TextAfterFinish ==
    (chunks' # chunks /\ chunks # << >>) =>
        LET chunk == chunks'[Len(chunks')]
        IN  (IsLoneFinish(LastChunk) /\ state.textBlockStarted /\ IsTextOnly(chunk)) =>
                /\ \E k \in 1..Len(steps) :
                       IsTextStopStep(steps[k])
                           /\ steps[k].event.index = state.currentBlockIndex
                /\ NewSteps = <<[op |-> "push", pos |-> -1,
                                 event |-> TextDelta(state.currentBlockIndex, chunk.content)]>>
                /\ state'.currentBlockIndex = state.currentBlockIndex

\* C38: a finish signal leaves textBlockStarted, textBuffer, currentBlockIndex and
\* toolCallStates unchanged and only appends to the completed units; hence a
\* second finish signal emits a content_block_stop for every unit already
\* stopped and appends those units again, and a later text delta is emitted at
\* the index of the text unit already stopped.
C38_FinishKeepsUnitsOpen ==
    [][FinishKeepsState]_vars /\ [][SecondFinishRepeats]_vars /\ [][TextAfterFinish]_vars

\* a text unit, stopped and recorded by each of two finish signals
C38_Witness ==
    /\ Len(chunks) = 3
    /\ IsTextOnly(chunks[1]) /\ IsLoneFinish(chunks[2]) /\ IsLoneFinish(chunks[3])
    /\ ~threw
    /\ Len(state.contentBlocks) = 2
    /\ state.contentBlocks[1] = state.contentBlocks[2]
    /\ Cardinality({k \in 1..Len(steps) : IsTextStopStep(steps[k])}) = 2
    /\ state.textBlockStarted

\* ---------------------------------------------------------------------------
\* C39: the id and name of a finalized tool unit
\* ---------------------------------------------------------------------------

IsStarted(ts) == ts.startEventSent

IsToolUnit(block) == block.type = "tool_use"

\* the tool units the chunk of this step finalized, in order
FinalizedTools ==
    SelectSeq(SubSeq(state'.contentBlocks, Len(state.contentBlocks) + 1,
                     Len(state'.contentBlocks)),
              IsToolUnit)

\* the content_block of the start event of the tool call at provider position p
StartOf(p) ==
    LET n == CHOOSE k \in 1..Len(steps') : IsToolStartStep(steps'[k]) /\ steps'[k].pos = p
    IN  steps'[n].event.content_block

\* a finish chunk finalizes one unit per started tool call, in registration order
FinalizedAreStarted ==
    Len(FinalizedTools) = Len(SelectSeq(state'.toolCallStates, IsStarted))

FinalizedIdOfStart ==
    (chunks' # chunks /\ HasFinish(chunks'[Len(chunks')]) /\ ~threw') =>
        /\ FinalizedAreStarted
        /\ \A k \in 1..Len(FinalizedTools) :
              FinalizedTools[k].id
                  = StartOf(SelectSeq(state'.toolCallStates, IsStarted)[k].key).id

FinalizedNameOfStart ==
    (chunks' # chunks /\ HasFinish(chunks'[Len(chunks')]) /\ ~threw') =>
        /\ FinalizedAreStarted
        /\ \A k \in 1..Len(FinalizedTools) :
              FinalizedTools[k].name
                  = StartOf(SelectSeq(state'.toolCallStates, IsStarted)[k].key).name

\* C39: the id and the name of every finalized tool unit are the id and the name
\* its content_block_start event carried, whatever later deltas at the same
\* provider position carry.
C39_FinalizedMatchesStart == [][FinalizedIdOfStart]_vars /\ [][FinalizedNameOfStart]_vars

\* what does hold: the id of a finalized tool unit is the id of its start event
FinalizedIdMatchesStart == [][FinalizedIdOfStart]_vars

\* ---------------------------------------------------------------------------
\* C40: the end of the client response
\* ---------------------------------------------------------------------------

\* res.end() is the step into "ended"; no step leaves it
EndedOnce == pc # "ended"

\* the provider stream has terminated: the sentinel was handled, or the provider
\* call or the translation of a chunk failed
TerminatedIsEnded == (SentinelHandled \/ failure # "") => pc = "ended"

NoFinishChunk ==
    \A k \in 1..Len(chunks) : ~(HasChoices(chunks[k]) /\ HasFinish(chunks[k]))

IsClosing(e) == e.type \in {"message_delta", "message_stop", "error"}

\* the step that ends the response after a normal end of the provider stream
\* writes nothing
NormalEndWritesNothing ==
    (pc # "ended" /\ pc' = "ended" /\ failure' = "") =>
        /\ written' = written
        /\ state' = state

\* after a normal end without a finish chunk the reply was not closed, and the
\* text unit left open was not stopped
OpenUnitsLeftOpen ==
    (pc = "ended" /\ failure = "" /\ NoFinishChunk) =>
        /\ \A k \in 1..Len(written) : ~IsClosing(written[k])
        /\ state.textBlockStarted =>
               \A k \in 1..Len(written) :
                   ~(IsStop(written[k]) /\ written[k].index = state.currentBlockIndex)

\* C40: when the provider stream terminates, by the sentinel, the end of the body
\* or an error, the client response is ended, once; when it ends normally without
\* a finish chunk, the server writes no content_block_stop, message_delta,
\* message_stop or error event for the units left open before it ends the response.
C40_ResponseEndedOnce ==
    /\ [][EndedOnce]_vars
    /\ [](TerminatedIsEnded /\ OpenUnitsLeftOpen)
    /\ [][NormalEndWritesNothing]_vars

\* the body ended, without the sentinel, while a text unit was open
C40_Witness ==
    /\ pc = "ended"
    /\ failure = ""
    /\ ~SentinelHandled
    /\ NoFinishChunk
    /\ Len(chunks) >= 1
    /\ state.textBlockStarted
    /\ written[Len(written)].type = "content_block_delta"

====
